---- MODULE Spec2Model ----
(***************************************************************************)
(* Model of the Brain log parser (package parser of n0madic/go-brain).     *)
(*                                                                         *)
(* A log line is modelled by the sequence of raw tokens that the tokenizer *)
(* (splitWithoutFiltering) yields for it; a token is a string whose        *)
(* characters are given by TokChars, so that the character-level           *)
(* heuristics of the parser are computed and not assumed.  A template is   *)
(* the sequence of its tokens (the Go code joins them with single spaces). *)
(* Go maps are iterated in an unspecified order: every place where the     *)
(* code ranges over a map is a nondeterministic choice of an order here.   *)
(***************************************************************************)
EXTENDS Integers, Sequences, FiniteSets, TLC

(***************************************************************************)
(* Bounds of the model.                                                    *)
(***************************************************************************)
MaxLines == 2
MaxLen == 2
MaxNest == 2

(***************************************************************************)
(* Generic helpers on sequences and sets.                                  *)
(***************************************************************************)
Range(s) == {s[i] : i \in DOMAIN s}

Max2(a, b) == IF a > b THEN a ELSE b

Min2(a, b) == IF a < b THEN a ELSE b

SetMax(S) == CHOOSE x \in S : \A y \in S : y <= x

SetMin(S) == CHOOSE x \in S : \A y \in S : x <= y

RECURSIVE SumSeq(_)
SumSeq(s) == IF s = <<>> THEN 0 ELSE Head(s) + SumSeq(Tail(s))

RECURSIVE Flatten(_)
Flatten(ss) == IF ss = <<>> THEN <<>> ELSE Head(ss) \o Flatten(Tail(ss))

\* All orders (sequences without repetition) in which a finite set may be visited.
RECURSIVE Orders(_)
Orders(S) ==
    IF S = {} THEN {<<>>}
    ELSE UNION {{<<x>> \o o : o \in Orders(S \ {x})} : x \in S}

(***************************************************************************)
(* Tokens and their characters.                                            *)
(***************************************************************************)
WILDCARD == "<*>"

ROOT == "ROOT"

TokChars ==
    [w \in {"k", "z", "7", "abcdefghij", "abc1", "ROOT", "<*>"} |->
        CASE w = "k" -> <<"k">>
          [] w = "z" -> <<"z">>
          [] w = "7" -> <<"7">>
          [] w = "abcdefghij" -> <<"a", "b", "c", "d", "e", "f", "g", "h", "i", "j">>
          [] w = "abc1" -> <<"a", "b", "c", "1">>
          [] w = "ROOT" -> <<"R", "O", "O", "T">>
          [] w = "<*>" -> <<"<", "*", ">">>]

Chars(w) == TokChars[w]

DigitChars == {"0", "1", "2", "3", "4", "5", "6", "7", "8", "9"}

LowerChars ==
    {"a", "b", "c", "d", "e", "f", "g", "h", "i", "j", "k", "l", "m",
     "n", "o", "p", "q", "r", "s", "t", "u", "v", "w", "x", "y", "z"}

UpperChars ==
    {"A", "B", "C", "D", "E", "F", "G", "H", "I", "J", "K", "L", "M",
     "N", "O", "P", "Q", "R", "S", "T", "U", "V", "W", "X", "Y", "Z"}

LetterChars == LowerChars \cup UpperChars

HexChars == DigitChars \cup {"a", "b", "c", "d", "e", "f", "A", "B", "C", "D", "E", "F"}

CountChars(w, S) == Cardinality({i \in DOMAIN Chars(w) : Chars(w)[i] \in S})

WordLen(w) == Len(Chars(w))

\* isNumericVariable: at least 30% of the characters are digits.
isNumericVariable(w) ==
    /\ WordLen(w) # 0
    /\ 10 * CountChars(w, DigitChars) >= 3 * WordLen(w)

\* The anchored default patterns that a token can match; every other default
\* pattern requires a character (. : / - @ % \ [ ] or a space) that is neither
\* a letter nor a digit.
AllIn(w, S) == \A i \in DOMAIN Chars(w) : Chars(w)[i] \in S

pure_numbers(w) == WordLen(w) >= 1 /\ AllIn(w, DigitChars)

session_id(w) == WordLen(w) >= 16 /\ AllIn(w, LetterChars \cup DigitChars)

hex_numbers(w) ==
    /\ WordLen(w) >= 3
    /\ Chars(w)[1] = "0"
    /\ Chars(w)[2] = "x"
    /\ \A i \in 3..WordLen(w) : Chars(w)[i] \in HexChars

file_sizes(w) ==
    LET n == WordLen(w) IN
    /\ n >= 2
    /\ Chars(w)[n] = "B"
    /\ \/ \A i \in 1..(n - 1) : Chars(w)[i] \in DigitChars
       \/ /\ n >= 3
          /\ Chars(w)[n - 1] \in {"K", "M", "G", "T"}
          /\ \A i \in 1..(n - 2) : Chars(w)[i] \in DigitChars

month_names(w) ==
    Chars(w) \in {<<"J", "a", "n">>, <<"F", "e", "b">>, <<"M", "a", "r">>,
                  <<"A", "p", "r">>, <<"M", "a", "y">>, <<"J", "u", "n">>,
                  <<"J", "u", "l">>, <<"A", "u", "g">>, <<"S", "e", "p">>,
                  <<"O", "c", "t">>, <<"N", "o", "v">>, <<"D", "e", "c">>}

getDefaultCommonVariables(w) ==
    \/ pure_numbers(w)
    \/ session_id(w)
    \/ hex_numbers(w)
    \/ file_sizes(w)
    \/ month_names(w)

\* filterCommonVariables: the masked value of a raw token.
filterCommonVariables(w) ==
    IF getDefaultCommonVariables(w) THEN WILDCARD
    ELSE IF isNumericVariable(w) THEN WILDCARD
    ELSE w

(***************************************************************************)
(* Config, and the defaults New fills in.  Floating-point fields are kept  *)
(* as scaled integers: Weight, EntropyThreshold and MinContentWordsRatio   *)
(* in hundredths, DynamicThresholdFactor in tenths.  Delimiters and        *)
(* CommonVariables are left at their defaults.                             *)
(***************************************************************************)
ZeroConfig ==
    [ChildBranchThreshold |-> 0,
     Weight |-> 0,
     UseDynamicThreshold |-> FALSE,
     DynamicThresholdFactor |-> 0,
     UseEnhancedPostProcessing |-> FALSE,
     UseStatisticalThreshold |-> FALSE,
     ParallelProcessingThreshold |-> 0,
     EntropyThreshold |-> 0,
     MinEntropyLength |-> 0,
     MaxConsecutiveWildcards |-> 0,
     MinContentWordsRatio |-> 0,
     TimestampMinDigits |-> 0,
     TimestampMinSeparators |-> 0,
     isReparsing |-> FALSE]

Default(v, d) == IF v = 0 THEN d ELSE v

New(config) ==
    [config EXCEPT
        !.ChildBranchThreshold = Default(@, 3),
        !.DynamicThresholdFactor = Default(@, 20),
        !.ParallelProcessingThreshold = Default(@, 1000),
        !.EntropyThreshold = Default(@, 85),
        !.MinEntropyLength = Default(@, 10),
        !.MaxConsecutiveWildcards = Default(@, 5),
        !.MinContentWordsRatio = Default(@, 25),
        !.TimestampMinDigits = Default(@, 8),
        !.TimestampMinSeparators = Default(@, 2)]

(***************************************************************************)
(* Post-processing heuristics (shouldBeVariable and the enhanced ones).    *)
(***************************************************************************)
ToUpper(c) ==
    IF c \in LowerChars
    THEN LET lo == <<"a", "b", "c", "d", "e", "f", "g", "h", "i", "j", "k", "l", "m",
                     "n", "o", "p", "q", "r", "s", "t", "u", "v", "w", "x", "y", "z">>
             up == <<"A", "B", "C", "D", "E", "F", "G", "H", "I", "J", "K", "L", "M",
                     "N", "O", "P", "Q", "R", "S", "T", "U", "V", "W", "X", "Y", "Z">>
         IN up[CHOOSE i \in 1..26 : lo[i] = c]
    ELSE c

ProtocolNames ==
    {<<"H", "T", "T", "P">>, <<"H", "T", "T", "P", "S">>, <<"S", "O", "C", "K", "S", "5">>,
     <<"F", "T", "P">>, <<"S", "S", "H">>, <<"T", "C", "P">>, <<"U", "D", "P">>,
     <<"I", "P", "V", "4">>, <<"I", "P", "V", "6">>}

containsMixedPatterns(w) ==
    LET letterCount == CountChars(w, LetterChars)
        digitCount == CountChars(w, DigitChars)
        hasSpecial == CountChars(w, {"_", "-", ".", ":", "/"}) > 0
        mixedCount == (IF letterCount > 0 THEN 1 ELSE 0)
                      + (IF digitCount > 0 THEN 1 ELSE 0)
                      + (IF hasSpecial THEN 1 ELSE 0)
    IN  IF WordLen(w) < 3 THEN FALSE
        ELSE IF [i \in DOMAIN Chars(w) |-> ToUpper(Chars(w)[i])] \in ProtocolNames THEN FALSE
        ELSE IF letterCount > digitCount * 2 /\ digitCount <= 1 THEN FALSE
        ELSE mixedCount >= 2 /\ digitCount > 1

shouldBeVariable(w) == isNumericVariable(w) \/ containsMixedPatterns(w)

CharType(c) ==
    IF c \in LetterChars THEN 1
    ELSE IF c \in DigitChars THEN 2
    ELSE IF c \in {"_", "-", "."} THEN 3
    ELSE 0

hasComplexPattern(w) ==
    LET transitions ==
            Cardinality({i \in 2..WordLen(w) :
                /\ CharType(Chars(w)[i - 1]) # 0
                /\ CharType(Chars(w)[i]) # 0
                /\ CharType(Chars(w)[i - 1]) # CharType(Chars(w)[i])})
    IN  IF WordLen(w) < 4 THEN FALSE ELSE transitions >= 3

looksLikeTimestamp(w, config) ==
    /\ CountChars(w, DigitChars) >= config.TimestampMinDigits
    /\ CountChars(w, {":", "-", "/", "."}) >= config.TimestampMinSeparators

looksLikeHash(w) ==
    IF WordLen(w) < 8 THEN FALSE
    ELSE 10 * CountChars(w, HexChars) > 8 * WordLen(w) /\ WordLen(w) >= 16

looksLikeEncoded(w) ==
    LET n == WordLen(w)
        validChars == CountChars(w, LetterChars \cup DigitChars \cup {"+", "/", "="})
        isBase64Like == 100 * validChars > 95 * n /\ Chars(w)[n] = "="
        highDiversity == 10 * Cardinality(Range(Chars(w))) > 6 * n
    IN  IF n < 8 THEN FALSE
        ELSE isBase64Like \/ (n >= 16 /\ highDiversity)

\* log2 of 1..16 in ten-thousandths (math.Log2).
Log2E4 ==
    <<0, 10000, 15850, 20000, 23219, 25850, 28074, 30000,
      31699, 33219, 34594, 35850, 37004, 38074, 39069, 40000>>

\* hasHighEntropy: the Shannon entropy of the character distribution, divided
\* by log2 of the length, exceeds EntropyThreshold.  With c the number of
\* occurrences of each distinct character of a word of length n, the
\* normalised entropy is 1 - (sum of c * log2 c) / (n * log2 n).  For n = 1
\* the Go code divides 0 by 0, and the comparison with NaN is false.
hasHighEntropy(w, config) ==
    LET n == WordLen(w)
        occ(ch) == CountChars(w, {ch})
        weighted == SumSeq([i \in 1..n |-> Log2E4[occ(Chars(w)[i])]])
    IN  IF n < config.MinEntropyLength THEN FALSE
        ELSE IF n = 1 THEN FALSE
        ELSE 100 * (n * Log2E4[n] - weighted) > config.EntropyThreshold * n * Log2E4[n]

shouldBeVariableEnhanced(w, config) ==
    \/ shouldBeVariable(w)
    \/ hasComplexPattern(w)
    \/ looksLikeTimestamp(w, config)
    \/ looksLikeHash(w)
    \/ looksLikeEncoded(w)
    \/ hasHighEntropy(w, config)

shouldBeVariableWithConfig(w, config) ==
    IF config.UseEnhancedPostProcessing
    THEN shouldBeVariableEnhanced(w, config)
    ELSE shouldBeVariable(w)

(***************************************************************************)
(* Preprocessing.  A LogMessage is [ID, Content, Words]; a Word is         *)
(* [Value, Position, Frequency] with 0-based Position as in the code.      *)
(***************************************************************************)
\* The count of the tokens whose masked value is that of w.
maskedFrequencies(logLines, w) ==
    SumSeq([i \in DOMAIN logLines |->
        Cardinality({j \in DOMAIN logLines[i] :
            filterCommonVariables(logLines[i][j]) = filterCommonVariables(w)})])

wordFrequencies(logLines, w) ==
    SumSeq([i \in DOMAIN logLines |->
        Cardinality({j \in DOMAIN logLines[i] : logLines[i][j] = w})])

PreprocessLogs(logLines) ==
    [i \in DOMAIN logLines |->
        [ID |-> i - 1,
         Content |-> logLines[i],
         Words |-> [j \in DOMAIN logLines[i] |->
                      [Value |-> filterCommonVariables(logLines[i][j]),
                       Position |-> j - 1,
                       Frequency |-> wordFrequencies(logLines, logLines[i][j])]]]]

(***************************************************************************)
(* Grouping by token count and Longest Common Pattern.                     *)
(***************************************************************************)
numericPattern(w) == WordLen(w) >= 1 /\ AllIn(w, DigitChars)

\* ^\d+\.\d+\.\d+\.\d+$
ipPattern(w) ==
    LET n == WordLen(w)
        dots == {i \in 1..n : Chars(w)[i] = "."}
    IN  /\ AllIn(w, DigitChars \cup {"."})
        /\ Cardinality(dots) = 3
        /\ 1 \notin dots
        /\ n \notin dots
        /\ \A i \in dots : (i + 1) \notin dots

\* ^[a-zA-Z]+_?\d+$
idPattern(w) ==
    LET n == WordLen(w) IN
    \E i \in 1..n :
        /\ \A j \in 1..i : Chars(w)[j] \in LetterChars
        /\ \E d \in (i + 1)..n :
              /\ d \in {i + 1, i + 2}
              /\ d = i + 2 => Chars(w)[i + 1] = "_"
              /\ \A j \in d..n : Chars(w)[j] \in DigitChars

\* ^\d+\s+\d+\s+\d+\s+\d+$
channelPattern(w) ==
    LET n == WordLen(w)
        starts == {i \in 1..n : Chars(w)[i] \in DigitChars
                                 /\ (i = 1 \/ Chars(w)[i - 1] = " ")}
    IN  /\ n >= 1
        /\ AllIn(w, DigitChars \cup {" "})
        /\ Chars(w)[1] # " "
        /\ Chars(w)[n] # " "
        /\ Cardinality(starts) = 4

hasVariablePatterns(words) ==
    LET variableCount ==
            Cardinality({i \in DOMAIN words :
                \/ numericPattern(words[i].Value)
                \/ ipPattern(words[i].Value)
                \/ idPattern(words[i].Value)
                \/ channelPattern(words[i].Value)})
    IN  2 * variableCount > Len(words)

combosByFreq(log, f) == SelectSeq(log.Words, LAMBDA wd : wd.Frequency = f)

FreqLevels(log) == {log.Words[j].Frequency : j \in DOMAIN log.Words}

isTwoFrequencyVariableLog(log) ==
    \E f \in FreqLevels(log) : hasVariablePatterns(combosByFreq(log, f))

selectConstantCombinationFromTwoFrequency(log) ==
    LET lo == SetMin(FreqLevels(log))
        hi == SetMax(FreqLevels(log))
    IN  IF ~hasVariablePatterns(combosByFreq(log, lo))
        THEN [Frequency |-> lo, Words |-> combosByFreq(log, lo)]
        ELSE IF ~hasVariablePatterns(combosByFreq(log, hi))
        THEN [Frequency |-> hi, Words |-> combosByFreq(log, hi)]
        ELSE [Frequency |-> lo, Words |-> combosByFreq(log, lo)]

\* No tie-breaking by length.
noTokenLength(words) == 0

calculateTotalTokenLength(words) ==
    SumSeq([i \in DOMAIN words |-> WordLen(words[i].Value)])

\* The frequencies of a set, highest first.
RECURSIVE Descending(_)
Descending(S) ==
    IF S = {} THEN <<>> ELSE <<SetMax(S)>> \o Descending(S \ {SetMax(S)})

\* The loop of findLongestWordCombination over the frequencies, highest first,
\* and what follows it: when no combination passed, the most frequent one.
RECURSIVE longestComboLoop(_, _, _, _)
longestComboLoop(log, freqs, frequencyThreshold100, best) ==
    IF freqs = <<>>
    THEN IF best.maxLen = 0
         THEN [Frequency |-> SetMax(FreqLevels(log)),
               Words |-> combosByFreq(log, SetMax(FreqLevels(log)))]
         ELSE best.combo
    ELSE IF 100 * Head(freqs) < frequencyThreshold100
    THEN longestComboLoop(log, Tail(freqs), frequencyThreshold100, best)
    ELSE IF \/ Len(combosByFreq(log, Head(freqs))) > best.maxLen
            \/ /\ Len(combosByFreq(log, Head(freqs))) = best.maxLen
               /\ calculateTotalTokenLength(combosByFreq(log, Head(freqs)))
                      > best.maxTokenLength
    THEN longestComboLoop(log, Tail(freqs), frequencyThreshold100,
             [combo |-> [Frequency |-> Head(freqs),
                         Words |-> combosByFreq(log, Head(freqs))],
              maxLen |-> Len(combosByFreq(log, Head(freqs))),
              maxTokenLength |->
                  calculateTotalTokenLength(combosByFreq(log, Head(freqs)))])
    ELSE longestComboLoop(log, Tail(freqs), frequencyThreshold100, best)

findLongestWordCombination(log, config) ==
    IF FreqLevels(log) = {} THEN [Frequency |-> 0, Words |-> <<>>]
    ELSE IF Cardinality(FreqLevels(log)) = 2 /\ isTwoFrequencyVariableLog(log)
    THEN selectConstantCombinationFromTwoFrequency(log)
    ELSE longestComboLoop(log, Descending(FreqLevels(log)),
             SetMax(FreqLevels(log)) * config.Weight,
             [combo |-> [Frequency |-> 0, Words |-> <<>>],
              maxLen |-> 0, maxTokenLength |-> 0])

\* WordCombination.Key: the frequency, then position and value of every word.
Key(wc) ==
    <<"freq", wc.Frequency>>
    \o Flatten([i \in DOMAIN wc.Words |->
                   <<"pos", wc.Words[i].Position, "val", wc.Words[i].Value>>])

LogKey(log, config) == Key(findLongestWordCombination(log, config))

\* The groups of one length bucket: its logs by the key of their pattern,
\* each with the pattern of its first log.  A LogPattern holds the Words and
\* the Frequency of the WordCombination.
patternGroups(group, config) ==
    [key \in {LogKey(group[i], config) : i \in DOMAIN group} |->
        [Pattern |-> findLongestWordCombination(
                         SelectSeq(group, LAMBDA log : LogKey(log, config) = key)[1],
                         config),
         Logs |-> SelectSeq(group, LAMBDA log : LogKey(log, config) = key)]]

\* The loop of CreateInitialGroups over the map logsByLength, iterated in
\* lengthOrder: the groups of a bucket are assigned to finalGroups by key, so
\* the bucket visited last keeps the entry of a key.
RECURSIVE lengthLoop(_, _, _, _)
lengthLoop(logs, config, lengthOrder, finalGroups) ==
    IF lengthOrder = <<>> THEN finalGroups
    ELSE lengthLoop(logs, config, Tail(lengthOrder),
             patternGroups(SelectSeq(logs, LAMBDA log :
                                         Len(log.Words) = Head(lengthOrder)),
                           config)
             @@ finalGroups)

CreateInitialGroups(logs, config, lengthOrder) ==
    lengthLoop(logs, config, lengthOrder, <<>>)

LengthOrders(logs) == Orders({Len(logs[i].Words) : i \in DOMAIN logs})

(***************************************************************************)
(* Branching threshold.                                                    *)
(***************************************************************************)
\* Natural logarithm of 1..20 in millionths (math.Log).
LnMicro ==
    <<0, 693147, 1098612, 1386294, 1609437, 1791759, 1945910, 2079441,
      2197224, 2302585, 2397895, 2484906, 2564949, 2639057, 2708050,
      2772588, 2833213, 2890371, 2944438, 2995732>>

\* calculateStatisticalThreshold for at most 20 distinct words: the
\* adjustments for more than 20 and more than 100 distinct words do not apply.
calculateStatisticalThreshold(uniqueWordsCount, config) ==
    IF uniqueWordsCount < 10
    THEN (LnMicro[uniqueWordsCount] * config.DynamicThresholdFactor * 15) \div 100000000
    ELSE (LnMicro[uniqueWordsCount] * config.DynamicThresholdFactor) \div 10000000

\* The threshold with the configured one for columns of one or two words.
calculateDynamicThresholdFromTwo(uniqueWordsCount, config) ==
    IF ~config.UseDynamicThreshold \/ uniqueWordsCount <= 2
    THEN config.ChildBranchThreshold
    ELSE LET dynamicThreshold ==
                 IF config.UseStatisticalThreshold
                 THEN calculateStatisticalThreshold(uniqueWordsCount, config)
                 ELSE (LnMicro[uniqueWordsCount] * config.DynamicThresholdFactor)
                          \div 10000000
         IN  Min2(Max2(dynamicThreshold, 2), 10)

calculateDynamicThreshold(uniqueWordsCount, config) ==
    IF ~config.UseDynamicThreshold \/ uniqueWordsCount <= 0
    THEN config.ChildBranchThreshold
    ELSE LET dynamicThreshold ==
                 IF config.UseStatisticalThreshold
                 THEN calculateStatisticalThreshold(uniqueWordsCount, config)
                 ELSE (LnMicro[uniqueWordsCount] * config.DynamicThresholdFactor)
                          \div 10000000
         IN  Min2(Max2(dynamicThreshold, 2), 10)

(***************************************************************************)
(* Building the bidirectional tree of a group.  A Node is                  *)
(* [Value, IsVariable, Position, Children, ParentWords, Logs]; Children    *)
(* maps edge labels to nodes; "" is the zero value of a string.            *)
(***************************************************************************)
NoChildren == <<>>

ValueAt(log, pos) == log.Words[pos + 1].Value

uniqueWords(logs, pos) == {ValueAt(logs[i], pos) : i \in DOMAIN logs}

countUniqueWordsInColumn(logs, position) == Cardinality(uniqueWords(logs, position))

\* Only the first log that carries the word.
LogsWithWordOnce(logs, pos, word) ==
    SubSeq(SelectSeq(logs, LAMBDA log : ValueAt(log, pos) = word), 1, 1)

LogsWithWord(logs, pos, word) == SelectSeq(logs, LAMBDA log : ValueAt(log, pos) = word)

\* One node of the parent direction, for the logs of a group or a subgroup.
ParentNode(logs, pos) ==
    [IsVariable |-> countUniqueWordsInColumn(logs, pos) > 1,
     Position |-> pos,
     Value |-> IF countUniqueWordsInColumn(logs, pos) > 1 THEN ""
               ELSE ValueAt(logs[1], pos)]

updateParentDirection(logs, parentCols) ==
    [pos \in Range(parentCols) |-> ParentNode(logs, pos)]

\* s extended with "" up to length n.
ExtendTo(s, n) == [i \in 1..Max2(Len(s), n) |-> IF i <= Len(s) THEN s[i] ELSE ""]

\* iterativelyUpdateParentNodes: the ParentWords of a new constant child.
\* GetNode hands out either a new node, whose ParentWords is nil, or a node
\* from the pool, whose ParentWords is cut to length 0.
RECURSIVE iterativelyUpdateParentNodes(_, _, _, _)
iterativelyUpdateParentNodes(parentColumns, subGroupLogs, isNil, ParentWords) ==
    IF parentColumns = <<>> THEN ParentWords
    ELSE LET parentPos == Head(parentColumns)
             parentNode == ParentNode(subGroupLogs, parentPos)
             made == IF isNil
                     THEN [i \in 1..Len(subGroupLogs[1].Words) |-> ""]
                     ELSE ParentWords
             maxPos == Max2(parentPos, Len(subGroupLogs[1].Words) - 1)
             stored ==
                 IF parentNode.IsVariable
                 THEN IF Len(made) > parentPos
                      THEN [ExtendTo(made, maxPos + 1) EXCEPT ![parentPos + 1] = WILDCARD]
                      ELSE made
                 ELSE [ExtendTo(made, parentPos + 1) EXCEPT ![parentPos + 1] = parentNode.Value]
         IN  iterativelyUpdateParentNodes(Tail(parentColumns), subGroupLogs, FALSE, stored)

\* sort.Slice of a slice of at most 12 elements is an insertion sort: it
\* keeps the order of the columns whose counts are equal.
RECURSIVE SortByCount(_, _)
SortByCount(cols, logs) ==
    IF cols = <<>> THEN <<>>
    ELSE LET least == SetMin({countUniqueWordsInColumn(logs, cols[i]) : i \in DOMAIN cols})
             at == SetMin({i \in DOMAIN cols :
                             countUniqueWordsInColumn(logs, cols[i]) = least})
         IN  <<cols[at]>>
             \o SortByCount([i \in 1..(Len(cols) - 1) |->
                                IF i < at THEN cols[i] ELSE cols[i + 1]], logs)

\* The sorted part put in front of the columns already taken.
SortToFront(cols, from, logs) ==
    SortByCount(SubSeq(cols, from, Len(cols)), logs) \o SubSeq(cols, 1, from - 1)

\* The backing array cols with its part from index from on sorted in place.
SortFrom(cols, from, logs) ==
    SubSeq(cols, 1, from - 1) \o SortByCount(SubSeq(cols, from, Len(cols)), logs)

\* updateChildDirection on the slice cols[from..] of the backing array cols,
\* which the recursive calls for sibling subgroups share and sort in place.
\* The result is the set of possible outcomes [Children, cols]: the children
\* built under the node and the backing array as the call leaves it.
RECURSIVE updateChildDirection(_, _, _, _, _)
RECURSIVE splitLoop(_, _, _, _, _, _, _)

\* The test with >= for >.
isVariableColumnAtThreshold(uniqueWordsCount, threshold) == uniqueWordsCount >= threshold

\* The test of updateChildDirection that makes a column a variable.
isVariableColumn(uniqueWordsCount, threshold) == uniqueWordsCount > threshold

updateChildDirection(parentColumns, config, currentLogs, cols, from) ==
    IF from > Len(cols) THEN {[Children |-> NoChildren, cols |-> cols]}
    ELSE
      LET childCols == SortFrom(cols, from, currentLogs)
          posToProcess == childCols[from]
          wordsInColumn == uniqueWords(currentLogs, posToProcess)
          uniqueWordsCount == Cardinality(wordsInColumn)
          threshold == calculateDynamicThreshold(uniqueWordsCount, config)
      IN  IF isVariableColumn(uniqueWordsCount, threshold)
          THEN {[Children |->
                    (WILDCARD :> [Value |-> "",
                                  IsVariable |-> TRUE,
                                  Position |-> posToProcess,
                                  Children |-> r.Children,
                                  ParentWords |-> <<>>,
                                  Logs |-> currentLogs]),
                 cols |-> r.cols] :
                r \in updateChildDirection(parentColumns, config, currentLogs,
                                           childCols, from + 1)}
          ELSE UNION {splitLoop(parentColumns, config, currentLogs, posToProcess, order,
                                from, [Children |-> NoChildren, cols |-> childCols]) :
                      order \in Orders(wordsInColumn)}

\* The loop over wordsInColumn, visited in the order given.
splitLoop(parentColumns, config, currentLogs, posToProcess, order, from, acc) ==
    IF order = <<>> THEN {acc}
    ELSE
      LET word == Head(order)
          subGroupLogs == LogsWithWord(currentLogs, posToProcess, word)
          nilChoices == IF parentColumns = <<>> THEN {TRUE} ELSE {TRUE, FALSE}
      IN  UNION {
            UNION {splitLoop(parentColumns, config, currentLogs, posToProcess,
                             Tail(order), from,
                             [Children |->
                                 acc.Children @@
                                 (word :> [Value |-> word,
                                           IsVariable |-> FALSE,
                                           Position |-> posToProcess,
                                           Children |-> r.Children,
                                           ParentWords |->
                                               iterativelyUpdateParentNodes(
                                                   parentColumns, subGroupLogs, isNil, <<>>),
                                           Logs |-> subGroupLogs]),
                              cols |-> r.cols]) :
                   r \in updateChildDirection(parentColumns, config, subGroupLogs,
                                              acc.cols, from + 1)} :
            isNil \in nilChoices}

\* The minimum frequency of a word in a column of the group.
ColumnMinFreq(logs, pos) ==
    SetMin({logs[i].Words[pos + 1].Frequency : i \in DOMAIN logs})

\* The maximum frequency of a word in a column of the group.
ColumnMaxFreq(logs, pos) ==
    SetMax({logs[i].Words[pos + 1].Frequency : i \in DOMAIN logs})

\* BuildTreeForGroup: the set of trees the call may build.  The columns are
\* collected by ranging over a map, so parentCols and childCols start in any
\* order.
BuildTreeForGroup(group, config) ==
    LET numCols == Len(group.Logs[1].Words)
        rootPositions == {group.Pattern.Words[i].Position : i \in DOMAIN group.Pattern.Words}
        candidates == (0..(numCols - 1)) \ rootPositions
        parentSet == {pos \in candidates :
                        ColumnMaxFreq(group.Logs, pos) > group.Pattern.Frequency}
        childSet == candidates \ parentSet
    IN  UNION {
          UNION {
            {[RootNodes |-> group.Pattern.Words,
              ParentDirection |-> updateParentDirection(group.Logs, parentCols),
              ChildDirectionRoot |-> [Value |-> ROOT,
                                      IsVariable |-> FALSE,
                                      Position |-> 0,
                                      Children |-> r.Children,
                                      ParentWords |-> <<>>,
                                      Logs |-> group.Logs],
              ParentColumns |-> parentCols,
              RootPattern |-> group.Pattern] :
             r \in updateChildDirection(parentCols, config, group.Logs, childCols, 1)} :
          childCols \in Orders(childSet)} :
        parentCols \in Orders(parentSet)}

(***************************************************************************)
(* Templates.  A template map (baseTemplate, pathTemplate) is a function   *)
(* from 0-based positions to strings; a ParseResult is                     *)
(* [Template, Count, LogIDs].                                              *)
(***************************************************************************)
NoTemplate == <<>>

\* m with m[pos] set to word.
Put(m, pos, word) == [q \in (DOMAIN m) \cup {pos} |-> IF q = pos THEN word ELSE m[q]]

\* m overlaid with over: the entries of over win.
Overlay(m, over) ==
    [q \in (DOMAIN m) \cup (DOMAIN over) |-> IF q \in DOMAIN over THEN over[q] ELSE m[q]]

baseTemplateOf(tree) ==
    LET fromParents ==
            [pos \in DOMAIN tree.ParentDirection |->
                IF tree.ParentDirection[pos].IsVariable THEN WILDCARD
                ELSE tree.ParentDirection[pos].Value]
        fromRoot ==
            [pos \in {tree.RootNodes[i].Position : i \in DOMAIN tree.RootNodes} |->
                (CHOOSE wd \in Range(tree.RootNodes) : wd.Position = pos).Value]
    IN  Overlay(fromParents, fromRoot)

buildCompleteTemplate(baseTemplate, pathTemplate, config) ==
    LET completeTemplate == Overlay(baseTemplate, pathTemplate)
        maxPos == IF DOMAIN completeTemplate = {} THEN 0
                  ELSE Max2(0, SetMax(DOMAIN completeTemplate))
    IN  [i \in 1..(maxPos + 1) |->
            IF (i - 1) \in DOMAIN completeTemplate
            THEN LET word == completeTemplate[i - 1]
                 IN  IF word # WILDCARD /\ shouldBeVariableWithConfig(word, config)
                     THEN WILDCARD
                     ELSE word
            ELSE WILDCARD]

\* The path template after the node's own entry only.
PathWithoutParentWords(node, pathTemplate) ==
    IF node.Position >= 0
    THEN IF node.IsVariable THEN Put(pathTemplate, node.Position, WILDCARD)
         ELSE IF node.Value # "" /\ node.Value # ROOT
         THEN Put(pathTemplate, node.Position, node.Value)
         ELSE pathTemplate
    ELSE pathTemplate

\* The path template after the node's own entry and its ParentWords.
PathWithNode(node, pathTemplate) ==
    LET own == IF node.Position >= 0
               THEN IF node.IsVariable THEN Put(pathTemplate, node.Position, WILDCARD)
                    ELSE IF node.Value # "" /\ node.Value # ROOT
                    THEN Put(pathTemplate, node.Position, node.Value)
                    ELSE pathTemplate
               ELSE pathTemplate
        words == {i \in DOMAIN node.ParentWords : node.ParentWords[i] # ""}
    IN  Overlay(own, [pos \in {i - 1 : i \in words} |-> node.ParentWords[pos + 1]])

\* collectTemplatesFromNode: the possible result lists; the children of a
\* node are visited in any order.
RECURSIVE collectTemplatesFromNode(_, _, _, _)
RECURSIVE collectChildren(_, _, _, _, _)
collectTemplatesFromNode(node, baseTemplate, pathTemplate, config) ==
    LET path == PathWithNode(node, pathTemplate) IN
    IF DOMAIN node.Children = {} /\ Len(node.Logs) > 0
    THEN {<<[Template |-> buildCompleteTemplate(baseTemplate, path, config),
             Count |-> Len(node.Logs),
             LogIDs |-> [i \in DOMAIN node.Logs |-> node.Logs[i].ID]]>>}
    ELSE UNION {collectChildren(node, order, baseTemplate, path, config) :
                order \in Orders(DOMAIN node.Children)}

collectChildren(node, order, baseTemplate, path, config) ==
    IF order = <<>> THEN {<<>>}
    ELSE {head \o rest :
            head \in collectTemplatesFromNode(node.Children[Head(order)],
                                               baseTemplate, path, config),
            rest \in collectChildren(node, Tail(order), baseTemplate, path, config)}

(***************************************************************************)
(* Quality filter.                                                         *)
(***************************************************************************)
\* The number of <*> tokens, consecutive or not.
countWildcards(tokens) ==
    Cardinality({i \in DOMAIN tokens : tokens[i] = WILDCARD})

\* The longest run of consecutive <*> tokens.
maxConsecutiveWildcards(tokens) ==
    LET runs == {n \in 0..Len(tokens) :
                   \E i \in 1..(Len(tokens) - n + 1) :
                       \A j \in i..(i + n - 1) : tokens[j] = WILDCARD}
    IN  SetMax(runs)

isQualityTemplate(template, config) ==
    LET tokens == template
        wildcardCount == Cardinality({i \in DOMAIN tokens : tokens[i] = WILDCARD})
        contentWords == Len(tokens) - wildcardCount
    IN  IF Len(tokens) = 0 THEN FALSE
        ELSE IF /\ config.MaxConsecutiveWildcards > 0
                /\ maxConsecutiveWildcards(tokens) > config.MaxConsecutiveWildcards
        THEN FALSE
        ELSE IF 100 * contentWords < config.MinContentWordsRatio * Len(tokens) THEN FALSE
        ELSE IF wildcardCount = Len(tokens) THEN FALSE
        ELSE TRUE

filterLowQualityTemplates(results, config) ==
    [good |-> SelectSeq(results, LAMBDA r : isQualityTemplate(r.Template, config)),
     bad |-> SelectSeq(results, LAMBDA r : ~isQualityTemplate(r.Template, config))]

(***************************************************************************)
(* Aggregation.                                                            *)
(***************************************************************************)
\* The loop with a later result replacing an earlier one of its template.
RECURSIVE aggLoopReplacing(_, _)
aggLoopReplacing(results, aggMap) ==
    IF results = <<>> THEN aggMap
    ELSE LET res == Head(results) IN
         aggLoopReplacing(Tail(results),
             [t \in (DOMAIN aggMap) \cup {res.Template} |->
                 IF t = res.Template THEN res ELSE aggMap[t]])

\* The map aggMap after the loop over results.
RECURSIVE aggLoop(_, _)
aggLoop(results, aggMap) ==
    IF results = <<>> THEN aggMap
    ELSE LET res == Head(results) IN
         IF res.Template \in DOMAIN aggMap
         THEN aggLoop(Tail(results),
                  [aggMap EXCEPT ![res.Template] =
                      [Template |-> @.Template,
                       Count |-> @.Count + res.Count,
                       LogIDs |-> @.LogIDs \o res.LogIDs]])
         ELSE aggLoop(Tail(results), aggMap @@ (res.Template :> res))

\* The loop started on a map that holds an entry already.
aggMapSeeded(results) ==
    aggLoop(results, <<>> :> [Template |-> <<>>, Count |-> 0, LogIDs |-> <<>>])

aggMapOf(results) == aggLoop(results, <<>>)

\* aggregateResults: the possible final lists.  The entries of aggMap are
\* appended in any order and then sorted by count, highest first.
aggregateResults(results) ==
    LET aggMap == aggMapOf(results) IN
    {[i \in DOMAIN order |-> aggMap[order[i]]] :
        order \in {o \in Orders(DOMAIN aggMap) :
                     \A i \in 1..(Len(o) - 1) : aggMap[o[i]].Count >= aggMap[o[i + 1]].Count}}

(***************************************************************************)
(* Reparsing of low-quality templates, and Parse as an operator.           *)
(*                                                                         *)
(* Parse, GenerateTemplatesFromTree and reparseWithRelaxedSettings call    *)
(* one another.  Each yields the set of its possible outcomes              *)
(* [res, nested, deep]: the result list, the number of Parse calls started *)
(* below it, and the deepest nesting level of a Parse call below it (the   *)
(* Parse of the caller runs at level 0).  MaxNest caps the nesting the     *)
(* model follows.                                                          *)
(***************************************************************************)
\* The relaxed Config without the isReparsing flag.
relaxedConfigUnflagged(config) ==
    [config EXCEPT !.EntropyThreshold = 95,
                   !.MinEntropyLength = 15,
                   !.TimestampMinDigits = 10]

relaxedConfig(config) ==
    [config EXCEPT !.EntropyThreshold = 95,
                   !.MinEntropyLength = 15,
                   !.TimestampMinDigits = 10,
                   !.isReparsing = TRUE]

noEnhancedConfig(config) ==
    [config EXCEPT !.UseEnhancedPostProcessing = FALSE,
                   !.isReparsing = TRUE]

originalConfig(config) ==
    [config EXCEPT !.UseEnhancedPostProcessing = FALSE,
                   !.UseStatisticalThreshold = FALSE,
                   !.isReparsing = TRUE]

\* extractLogsFromResults: the logs of the results, each once, in order.
RECURSIVE extractLoop(_, _, _)
extractLoop(ids, allLogs, extractedLogs) ==
    IF ids = <<>> THEN extractedLogs
    ELSE LET logID == Head(ids) IN
         IF (\A i \in DOMAIN extractedLogs : extractedLogs[i].ID # logID)
            /\ logID < Len(allLogs)
         THEN extractLoop(Tail(ids), allLogs, Append(extractedLogs, allLogs[logID + 1]))
         ELSE extractLoop(Tail(ids), allLogs, extractedLogs)

AllLogIDs(results) == Flatten([i \in DOMAIN results |-> results[i].LogIDs])

extractLogsFromResults(results, allLogs) == extractLoop(AllLogIDs(results), allLogs, <<>>)

\* removeProcessedLogs: logLines[i] is kept when originalLogs[i] has an ID
\* outside processedLogIDs.
RECURSIVE removeLoop(_, _, _, _)
removeLoop(logLines, originalLogs, processedLogIDs, i) ==
    IF i > Len(originalLogs) THEN <<>>
    ELSE (IF i <= Len(logLines) /\ originalLogs[i].ID \notin processedLogIDs
          THEN <<logLines[i]>> ELSE <<>>)
         \o removeLoop(logLines, originalLogs, processedLogIDs, i + 1)

removeProcessedLogs(logLines, originalLogs, processedLogIDs) ==
    removeLoop(logLines, originalLogs, processedLogIDs, 1)

RECURSIVE Parse(_, _, _)
RECURSIVE GenerateTemplatesFromTree(_, _, _, _)
RECURSIVE reparseWithRelaxedSettings(_, _, _, _)
RECURSIVE processGroups(_, _, _, _, _)

\* tryReparseWithConfig
tryReparseWithConfig(logLines, config, level) == Parse(logLines, New(config), level + 1)

\* One level of reparseWithRelaxedSettings that filters what it gets: from
\* the state st = [allGoodResults, logLines, nested, deep] to the possible
\* states after the level.
reparseLevel(st, logsToReparse, levelConfig, level) ==
    IF Len(st.logLines) = 0 THEN {st}
    ELSE UNION {
           {[allGoodResults |-> st.allGoodResults \o goodResults,
             logLines |-> IF Len(goodResults) > 0
                          THEN removeProcessedLogs(st.logLines, logsToReparse,
                                                   Range(AllLogIDs(goodResults)))
                          ELSE st.logLines,
             nested |-> st.nested + 1 + o.nested,
             deep |-> Max2(st.deep, o.deep)] :
            goodResults \in {filterLowQualityTemplates(o.res, levelConfig).good}} :
           o \in tryReparseWithConfig(st.logLines, levelConfig, level)}

\* The last level, which accepts every result.
reparseLast(st, levelConfig, level) ==
    IF Len(st.logLines) = 0 THEN {st}
    ELSE {[allGoodResults |-> st.allGoodResults \o o.res,
           logLines |-> st.logLines,
           nested |-> st.nested + 1 + o.nested,
           deep |-> Max2(st.deep, o.deep)] :
          o \in tryReparseWithConfig(st.logLines, levelConfig, level)}

\* reparseWithRelaxedSettings: level 1 with the relaxed Config, level 2 without
\* enhanced post-processing, level 3 with the original algorithm.
reparseWithRelaxedSettings(badResults, allLogs, config, level) ==
    UNION {
      IF Len(logsToReparse) = 0
      THEN {[res |-> badResults, nested |-> 0, deep |-> level]}
      ELSE {[res |-> IF Len(st3.allGoodResults) > 0 THEN st3.allGoodResults
                     ELSE badResults,
             nested |-> st3.nested,
             deep |-> st3.deep] :
            st3 \in UNION {
              reparseLast(st2, originalConfig(config), level) :
              st2 \in UNION {
                reparseLevel(st1, logsToReparse, noEnhancedConfig(config), level) :
                st1 \in reparseLevel(
                          [allGoodResults |-> <<>>,
                           logLines |-> [i \in DOMAIN logsToReparse |->
                                           logsToReparse[i].Content],
                           nested |-> 0,
                           deep |-> level],
                          logsToReparse, relaxedConfig(config), level)}}} :
      logsToReparse \in {extractLogsFromResults(badResults, allLogs)}}

GenerateTemplatesFromTree(tree, allLogs, config, level) ==
    UNION {
      IF config.UseEnhancedPostProcessing /\ ~config.isReparsing /\ level < MaxNest
      THEN UNION {
             IF Len(split.bad) > 0
             THEN {[res |-> split.good \o r.res, nested |-> r.nested, deep |-> r.deep] :
                   r \in reparseWithRelaxedSettings(split.bad, allLogs, config, level)}
             ELSE {[res |-> split.good, nested |-> 0, deep |-> level]} :
             split \in {filterLowQualityTemplates(results, config)}}
      ELSE {[res |-> results, nested |-> 0, deep |-> level]} :
      results \in collectTemplatesFromNode(tree.ChildDirectionRoot,
                                           baseTemplateOf(tree), NoTemplate, config)}

\* What processing one group may yield: BuildTreeForGroup, then
\* GenerateTemplatesFromTree.
processGroup(group, allLogs, config, level) ==
    UNION {GenerateTemplatesFromTree(tree, allLogs, config, level) :
           tree \in BuildTreeForGroup(group, config)}

\* The groups of groupSlice processed one after the other.
processGroups(groupSlice, initialGroups, allLogs, config, level) ==
    IF groupSlice = <<>> THEN {[res |-> <<>>, nested |-> 0, deep |-> level]}
    ELSE {[res |-> head.res \o rest.res,
           nested |-> head.nested + rest.nested,
           deep |-> Max2(head.deep, rest.deep)] :
          head \in processGroup(initialGroups[Head(groupSlice)], allLogs, config, level),
          rest \in processGroups(Tail(groupSlice), initialGroups, allLogs, config, level)}

\* Parse, for a parser whose config New has completed.  The worker pool of
\* processGroupsParallel hands over the templates of the groups in any order,
\* as does the sequential loop over the groups of a map.
Parse(logLines, config, level) ==
    UNION {
      UNION {
        UNION {
          UNION {{[res |-> final, nested |-> o.nested, deep |-> o.deep] :
                  final \in aggregateResults(o.res)} :
                 o \in processGroups(groupSlice, initialGroups, processedLogs,
                                     config, level)} :
          groupSlice \in Orders(DOMAIN initialGroups)} :
        initialGroups \in {CreateInitialGroups(processedLogs, config, lengthOrder) :
                              lengthOrder \in LengthOrders(processedLogs)}} :
      processedLogs \in {PreprocessLogs(logLines)}}

(***************************************************************************)
(* The parser as a state machine.  A behaviour is a first call of Parse    *)
(* and then a second call, on the same lines with the same Config, on the  *)
(* same lines with the other mode of execution (worker pool or sequential  *)
(* loop), or on the lines twice over.                                      *)
(***************************************************************************)
VARIABLES
    logLines,       \* the argument of the running call of Parse
    config,         \* the Config of the parser, as New completed it
    pc,             \* where the call is
    processedLogs,  \* Parse: processedLogs
    initialGroups,  \* Parse: initialGroups
    groupSlice,     \* Parse: groupSlice
    next,           \* index of the next group of groupSlice to process or send
    tree,           \* the tree built last by BuildTreeForGroup
    lastGroup,      \* what processing the last group yielded: [res, nested, deep]
    allTemplates,   \* Parse: allTemplates
    results,        \* the value Parse returns
    workChan,       \* processGroupsParallel: workChan
    workClosed,     \* workChan is closed
    workers,        \* processGroupsParallel: the worker goroutines
    resultsChan,    \* processGroupsParallel: resultsChan
    resultsClosed,  \* resultsChan is closed
    deep,           \* deepest nesting level of a Parse call so far in this call
    run,            \* 1 for the first call of Parse, 2 for the second
    kind,           \* how the second call differs from the first
    first,          \* the first call: [logLines, config, results], the results as
                    \* the multiset of their (template, count) pairs
    handled,        \* processGroupsParallel: per worker, the groups it has received
    collected,      \* processGroupsParallel: how many batches the caller has received
    fn,             \* the function applied on its own, "none" when Parse is driven
    args,           \* its arguments
    ret,            \* its return value, once it has returned
    entry,          \* StreamingProcessor: the method called
    batchSize,      \* StreamingProcessor: batchSize
    maxWorkers,     \* StreamingProcessor: maxWorkers
    spc,            \* where the call of the StreamingProcessor is
    sent,           \* how many of the lines the sender has put into batches
    batchChan,      \* batchChan
    batchClosed,    \* batchChan is closed
    streamWorkers,  \* the worker goroutines: "idle", "exited" or the results held
    resultChan,     \* resultChan
    resultClosed,   \* resultChan is closed
    allResults,     \* allResults
    streamOut,      \* the value the method returns
    ctxDone,        \* the context of the call is cancelled
    sender          \* the goroutine that sends the batches: [at, batch]

\* The variables of a function applied on its own.
callVars == <<fn, args, ret>>

\* The variables of a call of the StreamingProcessor.
streamVars ==
    <<entry, batchSize, maxWorkers, spc, sent, batchChan, batchClosed, streamWorkers,
      resultChan, resultClosed, allResults, streamOut, ctxDone, sender>>

\* The variables of a call of Parse.
parseVars ==
    <<pc, processedLogs, initialGroups, groupSlice, next, tree, lastGroup, allTemplates,
      results, workChan, workClosed, workers, resultsChan, resultsClosed, deep, run,
      kind, first, handled, collected>>

vars == <<logLines, config, parseVars, callVars, streamVars>>

Tokens == {"k", "7", "abcdefghij"}

Lines == UNION {[1..n -> Tokens] : n \in 0..MaxLen}

Inputs == UNION {[1..n -> Lines] : n \in 0..MaxLines}

Configs ==
    {[ZeroConfig EXCEPT !.ChildBranchThreshold = cbt,
                        !.UseEnhancedPostProcessing = enh,
                        !.ParallelProcessingThreshold = ppt] :
        cbt \in {0, 1}, enh \in BOOLEAN, ppt \in {0, 1}}
    \cup {[ZeroConfig EXCEPT !.UseDynamicThreshold = TRUE,
                             !.UseStatisticalThreshold = stat,
                             !.UseEnhancedPostProcessing = stat] : stat \in BOOLEAN}

NoTree == [RootNodes |-> <<>>]

NoOutcome == [res |-> <<>>, nested |-> 0, deep |-> 0]

\* Parse returns: what was local to the call is gone.
Return ==
    /\ processedLogs' = <<>>
    /\ initialGroups' = <<>>
    /\ groupSlice' = <<>>
    /\ next' = 1
    /\ tree' = NoTree
    /\ lastGroup' = NoOutcome
    /\ workChan' = <<>>
    /\ workClosed' = FALSE
    /\ workers' = <<>>
    /\ resultsChan' = <<>>
    /\ resultsClosed' = FALSE
    /\ deep' = 0
    /\ handled' = <<>>
    /\ collected' = 0

\* No call of Parse has started.
ParseIdle ==
    /\ pc = "idle"
    /\ processedLogs = <<>>
    /\ initialGroups = <<>>
    /\ groupSlice = <<>>
    /\ next = 1
    /\ tree = NoTree
    /\ lastGroup = NoOutcome
    /\ allTemplates = <<>>
    /\ results = <<>>
    /\ workChan = <<>>
    /\ workClosed = FALSE
    /\ workers = <<>>
    /\ resultsChan = <<>>
    /\ resultsClosed = FALSE
    /\ deep = 0
    /\ run = 1
    /\ kind = "none"
    /\ first = [logLines |-> <<>>, config |-> ZeroConfig, results |-> <<>>]
    /\ handled = <<>>
    /\ collected = 0

\* No function is applied on its own.
NoCall ==
    /\ fn = "none"
    /\ args = <<>>
    /\ ret = <<>>

\* The sender at the head of its loop, with nothing in batch.
SenderAtLoop == [at |-> "loop", batch |-> <<>>]

\* No StreamingProcessor is in use.
NoStream ==
    /\ entry = "none"
    /\ batchSize = 0
    /\ maxWorkers = 0
    /\ spc = "idle"
    /\ sent = 0
    /\ batchChan = <<>>
    /\ batchClosed = FALSE
    /\ streamWorkers = <<>>
    /\ resultChan = <<>>
    /\ resultClosed = FALSE
    /\ allResults = <<>>
    /\ streamOut = <<>>
    /\ ctxDone = FALSE
    /\ sender = SenderAtLoop

Init ==
    /\ logLines \in Inputs
    /\ config \in {New(c) : c \in Configs}
    /\ ParseIdle
    /\ NoCall
    /\ NoStream

\* A pool that starts no worker.
noWorkerCount(groups, cfg) == 0

\* getOptimalWorkerCount
getOptimalWorkerCount(groups, cfg) ==
    LET largeGroupCount ==
            Cardinality({key \in DOMAIN groups :
                Len(groups[key].Logs) >= cfg.ParallelProcessingThreshold})
    IN  Max2(Min2(largeGroupCount, 8), 2)

shouldUseParallel(groups, cfg) ==
    \E key \in DOMAIN groups : Len(groups[key].Logs) >= cfg.ParallelProcessingThreshold

\* What Parse may hold when it has preprocessed the lines, grouped them and
\* laid the groups of the map out as groupSlice.
Grouped(lines, cfg) ==
    UNION {
      UNION {
        {[processedLogs |-> logs, initialGroups |-> groups, groupSlice |-> slice] :
           slice \in Orders(DOMAIN groups)} :
        groups \in {CreateInitialGroups(logs, cfg, lengthOrder) :
                      lengthOrder \in LengthOrders(logs)}} :
      logs \in {PreprocessLogs(lines)}}

\* Parse up to the choice between the worker pool and the sequential loop;
\* processGroupsParallel up to the start of its workers.
ParseStart ==
    /\ pc = "idle"
    /\ \E g \in Grouped(logLines, config) :
         /\ processedLogs' = g.processedLogs
         /\ initialGroups' = g.initialGroups
         /\ groupSlice' = g.groupSlice
         /\ pc' = IF shouldUseParallel(g.initialGroups, config) THEN "sending"
                  ELSE IF g.groupSlice = <<>> THEN "aggregate"
                  ELSE "sequential"
         /\ workers' = IF shouldUseParallel(g.initialGroups, config)
                       THEN [w \in 1..getOptimalWorkerCount(g.initialGroups, config) |->
                                "running"]
                       ELSE <<>>
         /\ handled' = IF shouldUseParallel(g.initialGroups, config)
                       THEN [w \in 1..getOptimalWorkerCount(g.initialGroups, config) |->
                                <<>>]
                       ELSE <<>>
    /\ UNCHANGED <<logLines, config, next, tree, lastGroup, allTemplates, results, workChan,
                   workClosed, resultsChan, resultsClosed, deep, run, kind, first,
                   collected, callVars, streamVars>>

\* What the body of the loop over the groups may yield for a group, in Parse
\* and in a worker alike: the tree of BuildTreeForGroup and the templates of
\* GenerateTemplatesFromTree.
Built(group, allLogs, cfg) ==
    UNION {{[tree |-> t, templates |-> o] :
              o \in GenerateTemplatesFromTree(t, allLogs, cfg, 0)} :
           t \in BuildTreeForGroup(group, cfg)}

\* One round of the sequential loop of Parse over groupSlice.
SequentialStep ==
    /\ pc = "sequential"
    /\ \E b \in Built(initialGroups[groupSlice[next]], processedLogs, config) :
         /\ tree' = b.tree
         /\ lastGroup' = b.templates
         /\ allTemplates' = allTemplates \o b.templates.res
         /\ deep' = Max2(deep, b.templates.deep)
    /\ next' = next + 1
    /\ pc' = IF next = Len(groupSlice) THEN "aggregate" ELSE "sequential"
    /\ UNCHANGED <<logLines, config, processedLogs, initialGroups, groupSlice, results,
                   workChan, workClosed, workers, resultsChan, resultsClosed, run, kind,
                   first, handled, collected, callVars, streamVars>>

\* processGroupsParallel: one send of the loop that fills workChan.
SendWork ==
    /\ pc = "sending"
    /\ next <= Len(groupSlice)
    /\ workChan' = Append(workChan, groupSlice[next])
    /\ next' = next + 1
    /\ UNCHANGED <<logLines, config, pc, processedLogs, initialGroups, groupSlice, tree,
                   lastGroup, allTemplates, results, workClosed, workers, resultsChan,
                   resultsClosed, deep, run, kind, first, handled, collected, callVars,
                   streamVars>>

\* processGroupsParallel: close(workChan), after which the caller collects.
CloseWork ==
    /\ pc = "sending"
    /\ next > Len(groupSlice)
    /\ workClosed' = TRUE
    /\ pc' = "collecting"
    /\ UNCHANGED <<logLines, config, processedLogs, initialGroups, groupSlice, next, tree,
                   lastGroup, allTemplates, results, workChan, workers, resultsChan,
                   resultsClosed, deep, run, kind, first, handled, collected, callVars,
                   streamVars>>

\* One round of the loop of a worker: it receives a group from workChan,
\* processes it and sends its templates on resultsChan, whose buffer holds
\* one entry per group.
WorkerStep(w) ==
    /\ pc \in {"sending", "collecting"}
    /\ workers[w] = "running"
    /\ workChan # <<>>
    /\ \E b \in Built(initialGroups[Head(workChan)], processedLogs, config) :
         /\ tree' = b.tree
         /\ lastGroup' = b.templates
         /\ resultsChan' = Append(resultsChan, b.templates.res)
         /\ deep' = Max2(deep, b.templates.deep)
    /\ workChan' = Tail(workChan)
    /\ handled' = [handled EXCEPT ![w] = Append(@, Head(workChan))]
    /\ UNCHANGED <<logLines, config, pc, processedLogs, initialGroups, groupSlice, next,
                   allTemplates, results, workClosed, workers, resultsClosed, run, kind,
                   first, collected, callVars, streamVars>>

\* A worker finds workChan closed and empty and returns (wg.Done).
WorkerExit(w) ==
    /\ pc \in {"sending", "collecting"}
    /\ workers[w] = "running"
    /\ workChan = <<>>
    /\ workClosed
    /\ workers' = [workers EXCEPT ![w] = "exited"]
    /\ UNCHANGED <<logLines, config, pc, processedLogs, initialGroups, groupSlice, next, tree,
                   lastGroup, allTemplates, results, workChan, workClosed, resultsChan,
                   resultsClosed, deep, run, kind, first, handled, collected, callVars,
                   streamVars>>

\* The goroutine that waits for the workers closes resultsChan.
CloseResults ==
    /\ pc = "collecting"
    /\ ~resultsClosed
    /\ \A w \in DOMAIN workers : workers[w] = "exited"
    /\ resultsClosed' = TRUE
    /\ UNCHANGED <<logLines, config, pc, processedLogs, initialGroups, groupSlice, next, tree,
                   lastGroup, allTemplates, results, workChan, workClosed, workers,
                   resultsChan, deep, run, kind, first, handled, collected, callVars,
                   streamVars>>

\* The caller receives one list of templates from resultsChan.
Collect ==
    /\ pc = "collecting"
    /\ resultsChan # <<>>
    /\ allTemplates' = allTemplates \o Head(resultsChan)
    /\ resultsChan' = Tail(resultsChan)
    /\ collected' = collected + 1
    /\ UNCHANGED <<logLines, config, pc, processedLogs, initialGroups, groupSlice, next, tree,
                   lastGroup, results, workChan, workClosed, workers, resultsClosed, deep,
                   run, kind, first, handled, callVars, streamVars>>

\* The caller finds resultsChan closed and empty: processGroupsParallel returns.
CollectDone ==
    /\ pc = "collecting"
    /\ resultsChan = <<>>
    /\ resultsClosed
    /\ pc' = "aggregate"
    /\ UNCHANGED <<logLines, config, processedLogs, initialGroups, groupSlice, next, tree,
                   lastGroup, allTemplates, results, workChan, workClosed, workers,
                   resultsChan, resultsClosed, deep, run, kind, first, handled, collected,
                   callVars, streamVars>>

\* Parse returns aggregateResults(allTemplates).
Aggregate ==
    /\ pc = "aggregate"
    /\ results' \in aggregateResults(allTemplates)
    /\ pc' = "done"
    /\ Return
    /\ UNCHANGED <<logLines, config, allTemplates, run, kind, first, callVars, streamVars>>

\* The Config of the second call when the mode of execution is switched.
OtherMode(cfg) ==
    [cfg EXCEPT !.ParallelProcessingThreshold = IF @ = 1 THEN 1000 ELSE 1]

\* The multiset of the (template, count) pairs of a list of results: how
\* many results carry each pair.
TemplateCounts(rs) ==
    [p \in {<<rs[i].Template, rs[i].Count>> : i \in DOMAIN rs} |->
        Cardinality({i \in DOMAIN rs : <<rs[i].Template, rs[i].Count>> = p})]

\* The second call of Parse.
SecondCall(k) ==
    /\ pc = "done"
    /\ run = 1
    /\ run' = 2
    /\ kind' = k
    /\ first' = [logLines |-> logLines, config |-> config, results |-> TemplateCounts(results)]
    /\ logLines' = IF k = "double" THEN logLines \o logLines ELSE logLines
    /\ config' = IF k = "mode" THEN OtherMode(config) ELSE config
    /\ pc' = "idle"
    /\ allTemplates' = <<>>
    /\ results' = <<>>
    /\ UNCHANGED <<processedLogs, initialGroups, groupSlice, next, tree, lastGroup, workChan,
                   workClosed, workers, resultsChan, resultsClosed, deep, handled, collected,
                   callVars, streamVars>>

Next ==
    \/ ParseStart
    \/ SequentialStep
    \/ SendWork
    \/ CloseWork
    \/ \E w \in DOMAIN workers : WorkerStep(w)
    \/ \E w \in DOMAIN workers : WorkerExit(w)
    \/ CloseResults
    \/ Collect
    \/ CollectDone
    \/ Aggregate
    \/ \E k \in {"same", "mode", "double"} : SecondCall(k)

Spec == Init /\ [][Next]_vars

(***************************************************************************)
(* The StreamingProcessor.  ProcessLargeSlice and ProcessReader cut the    *)
(* lines into batches; a sender goroutine puts the batches on batchChan,   *)
(* maxWorkers workers Parse them with the one parser and put the results   *)
(* on resultChan, and the caller collects and aggregates.  Both channels   *)
(* buffer maxWorkers entries.  The context is never cancelled.  The lines  *)
(* of the reader are logLines, the line "" being the one without tokens.   *)
(***************************************************************************)
MaxBatch == 2

MaxStreamWorkers == 2

StreamConfigs ==
    {[ZeroConfig EXCEPT !.UseEnhancedPostProcessing = enh] : enh \in BOOLEAN}

\* ProcessReader skips the empty lines.
NonEmptyLines(lines) == SelectSeq(lines, LAMBDA line : line # <<>>)

\* The lines the batches are cut from.
StreamLines ==
    IF entry = "ProcessReader" THEN NonEmptyLines(logLines) ELSE logLines

StreamIdle == [at |-> "idle", results |-> <<>>]

StreamInit ==
    /\ logLines \in Inputs
    /\ config \in {New(c) : c \in StreamConfigs}
    /\ ParseIdle
    /\ NoCall
    /\ entry \in {"ProcessLargeSlice", "ProcessReader"}
    /\ batchSize \in 1..MaxBatch
    /\ maxWorkers \in 1..MaxStreamWorkers
    /\ spc = "idle"
    /\ sent = 0
    /\ batchChan = <<>>
    /\ batchClosed = FALSE
    /\ streamWorkers = <<>>
    /\ resultChan = <<>>
    /\ resultClosed = FALSE
    /\ allResults = <<>>
    /\ streamOut = <<>>
    /\ ctxDone = FALSE
    /\ sender = SenderAtLoop

\* ProcessLargeSlice on fewer lines than a batch: Parse of all the lines.
StreamSmall ==
    /\ spc = "idle"
    /\ entry = "ProcessLargeSlice"
    /\ Len(logLines) < batchSize
    /\ streamOut' \in {o.res : o \in Parse(logLines, config, 0)}
    /\ spc' = "done"
    /\ UNCHANGED <<logLines, config, parseVars, callVars, ctxDone, sender, entry, batchSize,
                   maxWorkers,
                   sent, batchChan, batchClosed, streamWorkers, resultChan, resultClosed,
                   allResults>>

\* The channels are made and the goroutines started.
StreamStart ==
    /\ spc = "idle"
    /\ entry = "ProcessLargeSlice" => Len(logLines) >= batchSize
    /\ streamWorkers' = [w \in 1..maxWorkers |-> StreamIdle]
    /\ spc' = "running"
    /\ UNCHANGED <<logLines, config, parseVars, callVars, ctxDone, sender, entry, batchSize,
                   maxWorkers,
                   sent, batchChan, batchClosed, resultChan, resultClosed, allResults,
                   streamOut>>

\* The sender puts the next batch on batchChan.
StreamSend ==
    /\ spc = "running"
    /\ sent < Len(StreamLines)
    /\ Len(batchChan) < maxWorkers
    /\ batchChan' = Append(batchChan,
                           SubSeq(StreamLines, sent + 1,
                                  Min2(sent + batchSize, Len(StreamLines))))
    /\ sent' = Min2(sent + batchSize, Len(StreamLines))
    /\ UNCHANGED <<logLines, config, parseVars, callVars, ctxDone, sender, entry, batchSize,
                   maxWorkers,
                   spc, batchClosed, streamWorkers, resultChan, resultClosed, allResults,
                   streamOut>>

\* The sender returns: close(batchChan).
StreamCloseBatches ==
    /\ spc = "running"
    /\ sent = Len(StreamLines)
    /\ ~batchClosed
    /\ batchClosed' = TRUE
    /\ UNCHANGED <<logLines, config, parseVars, callVars, ctxDone, sender, entry, batchSize,
                   maxWorkers,
                   spc, sent, batchChan, streamWorkers, resultChan, resultClosed,
                   allResults, streamOut>>

\* A worker receives a batch and parses it.
StreamParse(w) ==
    /\ spc = "running"
    /\ streamWorkers[w].at = "idle"
    /\ batchChan # <<>>
    /\ \E o \in Parse(Head(batchChan), config, 0) :
         streamWorkers' = [streamWorkers EXCEPT ![w] = [at |-> "sending",
                                                        results |-> o.res]]
    /\ batchChan' = Tail(batchChan)
    /\ UNCHANGED <<logLines, config, parseVars, callVars, ctxDone, sender, entry, batchSize,
                   maxWorkers,
                   spc, sent, batchClosed, resultChan, resultClosed, allResults, streamOut>>

\* A worker puts its results on resultChan.
StreamDeliver(w) ==
    /\ spc = "running"
    /\ streamWorkers[w].at = "sending"
    /\ Len(resultChan) < maxWorkers
    /\ resultChan' = Append(resultChan, streamWorkers[w].results)
    /\ streamWorkers' = [streamWorkers EXCEPT ![w] = StreamIdle]
    /\ UNCHANGED <<logLines, config, parseVars, callVars, ctxDone, sender, entry, batchSize,
                   maxWorkers,
                   spc, sent, batchChan, batchClosed, resultClosed, allResults, streamOut>>

\* A worker finds batchChan closed and empty and returns.
StreamExit(w) ==
    /\ spc = "running"
    /\ streamWorkers[w].at = "idle"
    /\ batchChan = <<>>
    /\ batchClosed
    /\ streamWorkers' = [streamWorkers EXCEPT ![w] = [at |-> "exited", results |-> <<>>]]
    /\ UNCHANGED <<logLines, config, parseVars, callVars, ctxDone, sender, entry, batchSize,
                   maxWorkers,
                   spc, sent, batchChan, batchClosed, resultChan, resultClosed, allResults,
                   streamOut>>

\* The goroutine that waits for the workers closes resultChan.
StreamCloseResults ==
    /\ spc = "running"
    /\ ~resultClosed
    /\ \A w \in DOMAIN streamWorkers : streamWorkers[w].at = "exited"
    /\ resultClosed' = TRUE
    /\ UNCHANGED <<logLines, config, parseVars, callVars, ctxDone, sender, entry, batchSize,
                   maxWorkers,
                   spc, sent, batchChan, batchClosed, streamWorkers, resultChan,
                   allResults, streamOut>>

\* The caller receives the results of one batch.
StreamCollect ==
    /\ spc = "running"
    /\ resultChan # <<>>
    /\ allResults' = allResults \o Head(resultChan)
    /\ resultChan' = Tail(resultChan)
    /\ UNCHANGED <<logLines, config, parseVars, callVars, ctxDone, sender, entry, batchSize,
                   maxWorkers,
                   spc, sent, batchChan, batchClosed, streamWorkers, resultClosed,
                   streamOut>>

\* The caller finds resultChan closed and empty and returns
\* aggregateResults(allResults).
StreamReturn ==
    /\ spc = "running"
    /\ resultChan = <<>>
    /\ resultClosed
    /\ streamOut' \in aggregateResults(allResults)
    /\ spc' = "done"
    /\ UNCHANGED <<logLines, config, parseVars, callVars, ctxDone, sender, entry, batchSize,
                   maxWorkers,
                   sent, batchChan, batchClosed, streamWorkers, resultChan, resultClosed,
                   allResults>>

StreamNext ==
    \/ StreamSmall
    \/ StreamStart
    \/ StreamSend
    \/ StreamCloseBatches
    \/ \E w \in DOMAIN streamWorkers : StreamParse(w)
    \/ \E w \in DOMAIN streamWorkers : StreamDeliver(w)
    \/ \E w \in DOMAIN streamWorkers : StreamExit(w)
    \/ StreamCloseResults
    \/ StreamCollect
    \/ StreamReturn

StreamSpec == StreamInit /\ [][StreamNext]_vars

(***************************************************************************)
(* isQualityTemplate applied on its own, by a parser that New built from   *)
(* the Config args.config, to the template args.template.                  *)
(***************************************************************************)
MaxTemplateLen == 8

Templates == UNION {[1..n -> {WILDCARD, "k"}] : n \in 0..MaxTemplateLen}

QualityConfigs ==
    {[ZeroConfig EXCEPT !.MaxConsecutiveWildcards = m] : m \in 0..2}

QualityInit ==
    /\ logLines = <<>>
    /\ args \in [template : Templates, config : QualityConfigs]
    /\ config = New(args.config)
    /\ ParseIdle
    /\ NoStream
    /\ fn = "isQualityTemplate"
    /\ ret = <<>>

isQualityTemplateCall ==
    /\ fn = "isQualityTemplate"
    /\ ret = <<>>
    /\ ret' = <<isQualityTemplate(args.template, config)>>
    /\ UNCHANGED <<logLines, config, parseVars, fn, args, streamVars>>

QualityNext == isQualityTemplateCall

QualitySpec == QualityInit /\ [][QualityNext]_vars

(***************************************************************************)
(* Parse driven on copies of one line, of lines long enough to have a      *)
(* column of lower frequency than the pattern of the group.                *)
(***************************************************************************)
MaxCopies == 2

MaxCopyLen == 3

CopiesInit ==
    /\ logLines \in {[i \in 1..n |-> line] :
                        n \in 1..MaxCopies,
                        line \in UNION {[1..m -> Tokens] : m \in 0..MaxCopyLen}}
    /\ config \in {New(c) : c \in Configs}
    /\ ParseIdle
    /\ NoCall
    /\ NoStream

CopiesSpec == CopiesInit /\ [][Next]_vars

(***************************************************************************)
(* Parse by parsers with enhanced post-processing and a small limit on the *)
(* run of wildcards.                                                       *)
(***************************************************************************)
WildcardConfigs ==
    {[ZeroConfig EXCEPT !.MaxConsecutiveWildcards = 1,
                        !.UseEnhancedPostProcessing = TRUE,
                        !.ParallelProcessingThreshold = ppt] : ppt \in {0, 1}}

WildcardInit ==
    /\ logLines \in Inputs
    /\ config \in {New(c) : c \in WildcardConfigs}
    /\ ParseIdle
    /\ NoCall
    /\ NoStream

WildcardSpec == WildcardInit /\ [][Next]_vars

(***************************************************************************)
(* BuildTreeForGroup and collectTemplatesFromNode applied on their own to  *)
(* the groups of inputs in which a group has columns in the parent         *)
(* direction: lines of three tokens, the first from a set with a long      *)
(* token, the second and the third from short ones.                        *)
(***************************************************************************)
MaxLeafLines == 4

LeafFirst == <<"abcdefghij", "k">>

LeafSecond == <<"k", "z">>

LeafThird == <<"7", "abc1", "z">>

\* The n-th of the twelve lines.
LeafLine(n) ==
    <<LeafFirst[(n \div 6) + 1], LeafSecond[((n \div 3) % 2) + 1], LeafThird[(n % 3) + 1]>>

\* The inputs list their lines in the order of their numbers: the lines of
\* an input are a multiset of the twelve lines.
LeafInputs ==
    UNION {{[i \in 1..n |-> LeafLine(f[i])] :
              f \in {h \in [1..n -> 0..11] :
                        \A i \in 1..n : \A j \in i..n : h[i] <= h[j]}} :
           n \in 1..MaxLeafLines}

LeafConfigs == {[ZeroConfig EXCEPT !.ChildBranchThreshold = cbt] : cbt \in {0, 1}}

LeafInit ==
    /\ logLines \in LeafInputs
    /\ config \in {New(c) : c \in LeafConfigs}
    /\ ParseIdle
    /\ NoStream
    /\ fn = "collectTemplatesFromNode"
    /\ args = <<>>
    /\ ret = <<>>

\* The tree of one group of the input, and the templates collected from it.
collectTemplatesCall ==
    /\ fn = "collectTemplatesFromNode"
    /\ ret = <<>>
    /\ \E g \in Grouped(logLines, config) :
         \E key \in DOMAIN g.initialGroups :
           \E t \in BuildTreeForGroup(g.initialGroups[key], config) :
             \E rs \in collectTemplatesFromNode(t.ChildDirectionRoot, baseTemplateOf(t),
                                                NoTemplate, config) :
                ret' = <<[logs |-> g.processedLogs, tree |-> t, results |-> rs]>>
    /\ UNCHANGED <<logLines, config, parseVars, fn, args, streamVars>>

LeafNext == collectTemplatesCall

LeafSpec == LeafInit /\ [][LeafNext]_vars

(***************************************************************************)
(* BuildTreeForGroup and collectTemplatesFromNode applied on their own to  *)
(* the groups of inputs in which a group has three columns in the child    *)
(* direction: lines of four tokens that start with the same long token,    *)
(* parsed with a Weight that leaves only the most frequent level.          *)
(***************************************************************************)
MaxTreeLines == 4

TreeWeight == 80

TreeSecond == <<"k", "z">>

TreeThird == <<"7", "abc1">>

TreeFourth == <<"abc1", "<*>">>

\* The n-th of the eight lines.
TreeLine(n) ==
    <<"abcdefghij", TreeSecond[(n \div 4) + 1], TreeThird[((n \div 2) % 2) + 1],
      TreeFourth[(n % 2) + 1]>>

\* The inputs list their lines in the order of their numbers.
TreeInputs ==
    UNION {{[i \in 1..n |-> TreeLine(f[i])] :
              f \in {h \in [1..n -> 0..7] :
                        \A i \in 1..n : \A j \in i..n : h[i] <= h[j]}} :
           n \in 1..MaxTreeLines}

TreeConfigs ==
    {[ZeroConfig EXCEPT !.Weight = TreeWeight, !.ChildBranchThreshold = cbt] :
        cbt \in {0, 1}}

TreeInit ==
    /\ logLines \in TreeInputs
    /\ config \in {New(c) : c \in TreeConfigs}
    /\ ParseIdle
    /\ NoStream
    /\ fn = "collectTemplatesFromNode"
    /\ args = <<>>
    /\ ret = <<>>

TreeSpec == TreeInit /\ [][LeafNext]_vars

(***************************************************************************)
(* findLongestWordCombination applied on its own to a log of the input,    *)
(* for Weights below, at and above 1.                                      *)
(***************************************************************************)
ComboWeights == {0, 50, 80, 100, 150}

ComboConfigs == {[ZeroConfig EXCEPT !.Weight = w] : w \in ComboWeights}

ComboInit ==
    /\ logLines \in LeafInputs
    /\ config \in {New(c) : c \in ComboConfigs}
    /\ ParseIdle
    /\ NoStream
    /\ fn = "findLongestWordCombination"
    /\ args = <<>>
    /\ ret = <<>>

findLongestWordCombinationCall ==
    /\ fn = "findLongestWordCombination"
    /\ ret = <<>>
    /\ \E logs \in {PreprocessLogs(logLines)} :
         \E n \in DOMAIN logs :
            ret' = <<[log |-> logs[n],
                      combo |-> findLongestWordCombination(logs[n], config)]>>
    /\ UNCHANGED <<logLines, config, parseVars, fn, args, streamVars>>

ComboNext == findLongestWordCombinationCall

ComboSpec == ComboInit /\ [][ComboNext]_vars

(***************************************************************************)
(* BuildTreeForGroup and collectTemplatesFromNode applied on their own to  *)
(* the groups of inputs whose last token may be the text ROOT.             *)
(***************************************************************************)
MaxSentinelLines == 3

SentinelLines == {<<a, b>> : a \in {"abcdefghij", "k"}, b \in {ROOT, "z", "7"}}

SentinelInputs == UNION {[1..n -> SentinelLines] : n \in 1..MaxSentinelLines}

SentinelInit ==
    /\ logLines \in SentinelInputs
    /\ config \in {New(c) : c \in LeafConfigs}
    /\ ParseIdle
    /\ NoStream
    /\ fn = "collectTemplatesFromNode"
    /\ args = <<>>
    /\ ret = <<>>

SentinelSpec == SentinelInit /\ [][LeafNext]_vars

(***************************************************************************)
(* PreprocessLogs applied on its own to lines of zero to MaxLen tokens,    *)
(* among them a number and the text of the wildcard.                       *)
(***************************************************************************)
MaxPreprocessLines == 3

PreprocessTokens == {"k", "7", WILDCARD}

PreprocessInputs ==
    UNION {[1..n -> UNION {[1..k -> PreprocessTokens] : k \in 0..MaxLen}] :
           n \in 0..MaxPreprocessLines}

PreprocessInit ==
    /\ logLines \in PreprocessInputs
    /\ config = New(ZeroConfig)
    /\ ParseIdle
    /\ NoStream
    /\ fn = "PreprocessLogs"
    /\ args = <<>>
    /\ ret = <<>>

PreprocessLogsCall ==
    /\ fn = "PreprocessLogs"
    /\ ret = <<>>
    /\ ret' = <<PreprocessLogs(logLines)>>
    /\ UNCHANGED <<logLines, config, parseVars, fn, args, streamVars>>

PreprocessSpec == PreprocessInit /\ [][PreprocessLogsCall]_vars

(***************************************************************************)
(* isQualityTemplate and filterLowQualityTemplates applied on their own by *)
(* a parser that New built from the Config args.config, the limit on runs  *)
(* of <*> negative (New keeps it) or positive.                             *)
(***************************************************************************)
MaxFilterLen == 4

MaxFilterResults == 2

FilterTemplates == UNION {[1..n -> {WILDCARD, "k"}] : n \in 0..MaxFilterLen}

FilterResults ==
    UNION {{[i \in 1..n |-> [Template |-> ts[i], Count |-> i, LogIDs |-> <<i - 1>>]] :
            ts \in [1..n -> FilterTemplates]} : n \in 0..MaxFilterResults}

FilterConfigs ==
    {[ZeroConfig EXCEPT !.MaxConsecutiveWildcards = m, !.MinContentWordsRatio = r] :
     m \in {-1, 1, 2}, r \in {0, 50}}

FilterInit ==
    /\ logLines = <<>>
    /\ \/ /\ fn = "isQualityTemplate"
          /\ args \in [template : FilterTemplates, results : {<<>>},
                        config : FilterConfigs]
       \/ /\ fn = "filterLowQualityTemplates"
          /\ args \in [template : {<<>>}, results : FilterResults,
                        config : FilterConfigs]
    /\ config = New(args.config)
    /\ ParseIdle
    /\ NoStream
    /\ ret = <<>>

filterLowQualityTemplatesCall ==
    /\ fn = "filterLowQualityTemplates"
    /\ ret = <<>>
    /\ ret' = <<filterLowQualityTemplates(args.results, config)>>
    /\ UNCHANGED <<logLines, config, parseVars, fn, args, streamVars>>

FilterNext == isQualityTemplateCall \/ filterLowQualityTemplatesCall

FilterSpec == FilterInit /\ [][FilterNext]_vars

(***************************************************************************)
(* calculateDynamicThreshold and updateChildDirection applied on their own *)
(* by a parser with UseDynamicThreshold on or off.  updateChildDirection   *)
(* gets the two columns of a group of blocks of lines: column 0 runs       *)
(* through the same words in every block, column 1 holds the word of the   *)
(* block.  The words are single letters, which no common variable masks.   *)
(***************************************************************************)
MaxUniqueWords == 12

MaxDynamicBlocks == 3

DynamicValues == <<"a", "b", "c", "d", "e", "f", "g", "h", "i", "j", "l", "m">>

DynamicBlocks == <<"w", "x", "y", "z">>

\* The numbers of words of column 0: few enough to be split whatever the
\* factor, or more than the cap.
DynamicColumnSizes == {1, 2, 3, 11, 12}

DynamicLines(p, m, q) ==
    [i \in 1..(p * m) |->
        <<DynamicValues[((i - 1) % p) + 1], DynamicBlocks[(((i - 1) \div p) % q) + 1]>>]

\* PreprocessLogs of lines whose tokens are not masked.
DynamicLogs(lines) ==
    [i \in DOMAIN lines |->
        [ID |-> i - 1,
         Content |-> lines[i],
         Words |-> [j \in DOMAIN lines[i] |->
                      [Value |-> lines[i][j],
                       Position |-> j - 1,
                       Frequency |-> wordFrequencies(lines, lines[i][j])]]]]

DynamicConfigs ==
    {[ZeroConfig EXCEPT !.UseDynamicThreshold = d,
                        !.UseStatisticalThreshold = s,
                        !.DynamicThresholdFactor = f,
                        !.ChildBranchThreshold = c] :
     d \in BOOLEAN, s \in BOOLEAN, f \in {0, 50}, c \in {1, 3, 12}}

DynamicInit ==
    /\ \/ /\ fn = "calculateDynamicThreshold"
          /\ logLines = <<>>
          /\ args \in [uniqueWordsCount : 1..MaxUniqueWords, childCols : {<<>>},
                        config : DynamicConfigs]
       \/ /\ fn = "updateChildDirection"
          /\ logLines \in {DynamicLines(p, m, q) :
                               p \in DynamicColumnSizes,
                               m \in 1..MaxDynamicBlocks,
                               q \in 1..MaxDynamicBlocks}
          /\ args \in [uniqueWordsCount : {0}, childCols : Orders({0, 1}),
                        config : {c \in DynamicConfigs : c.UseDynamicThreshold}]
    /\ config = New(args.config)
    /\ ParseIdle
    /\ NoStream
    /\ ret = <<>>

calculateDynamicThresholdCall ==
    /\ fn = "calculateDynamicThreshold"
    /\ ret = <<>>
    /\ ret' = <<calculateDynamicThreshold(args.uniqueWordsCount, config)>>
    /\ UNCHANGED <<logLines, config, parseVars, fn, args, streamVars>>

updateChildDirectionCall ==
    /\ fn = "updateChildDirection"
    /\ ret = <<>>
    /\ \E r \in updateChildDirection(<<>>, config, DynamicLogs(logLines),
                                       args.childCols, 1) :
          ret' = <<r.Children>>
    /\ UNCHANGED <<logLines, config, parseVars, fn, args, streamVars>>

DynamicNext == calculateDynamicThresholdCall \/ updateChildDirectionCall

DynamicSpec == DynamicInit /\ [][DynamicNext]_vars

(***************************************************************************)
(* The StreamingProcessor under a context that may be cancelled at any     *)
(* moment.  The sender looks at the context at the head of its loop, once  *)
(* per batch in ProcessLargeSlice and once per line in ProcessReader, and  *)
(* a worker when it has received a batch; no send looks at it.  The lines  *)
(* of the reader end: scanner.Scan returns false after the last one.       *)
(***************************************************************************)
MaxCancelLines == 4

CancelInit ==
    /\ logLines \in UNION {[1..n -> {<<>>, <<"k">>}] : n \in 0..MaxCancelLines}
    /\ config = New(ZeroConfig)
    /\ ParseIdle
    /\ NoCall
    /\ entry \in {"ProcessLargeSlice", "ProcessReader"}
    /\ batchSize \in 1..MaxBatch
    /\ maxWorkers \in 1..MaxStreamWorkers
    /\ spc = "idle"
    /\ sent = 0
    /\ batchChan = <<>>
    /\ batchClosed = FALSE
    /\ streamWorkers = <<>>
    /\ resultChan = <<>>
    /\ resultClosed = FALSE
    /\ allResults = <<>>
    /\ streamOut = <<>>
    /\ ctxDone = FALSE
    /\ sender = SenderAtLoop

\* The context is cancelled.
Cancel ==
    /\ ~ctxDone
    /\ ctxDone' = TRUE
    /\ UNCHANGED <<logLines, config, parseVars, callVars, sender, entry, batchSize,
                   maxWorkers, spc, sent, batchChan, batchClosed, streamWorkers,
                   resultChan, resultClosed, allResults, streamOut>>

\* The goroutines are started.
Started == spc # "idle" /\ streamWorkers # <<>>

\* The sender that returns on a cancelled context without close(batchChan).
SenderLoopLeavingOpen ==
    /\ Started
    /\ sender.at = "loop"
    /\ IF sent < Len(logLines)
       THEN IF ctxDone
            THEN /\ sender' = [sender EXCEPT !.at = "returned"]
                 /\ UNCHANGED <<sent, batchClosed>>
            ELSE IF entry = "ProcessLargeSlice"
            THEN /\ sender' = [at |-> "send",
                               batch |-> SubSeq(logLines, sent + 1,
                                                Min2(sent + batchSize, Len(logLines)))]
                 /\ sent' = Min2(sent + batchSize, Len(logLines))
                 /\ UNCHANGED batchClosed
            ELSE /\ \E batch \in {IF logLines[sent + 1] # <<>>
                                  THEN Append(sender.batch, logLines[sent + 1])
                                  ELSE sender.batch} :
                      sender' = [at |-> IF logLines[sent + 1] # <<>>
                                           /\ Len(batch) >= batchSize
                                        THEN "send" ELSE "loop",
                                 batch |-> batch]
                 /\ sent' = sent + 1
                 /\ UNCHANGED batchClosed
       ELSE IF entry = "ProcessReader" /\ sender.batch # <<>>
            THEN /\ sender' = [sender EXCEPT !.at = "last"]
                 /\ UNCHANGED <<sent, batchClosed>>
            ELSE /\ sender' = [sender EXCEPT !.at = "returned"]
                 /\ batchClosed' = TRUE
                 /\ UNCHANGED sent
    /\ UNCHANGED <<logLines, config, parseVars, callVars, ctxDone, entry, batchSize,
                   maxWorkers, spc, batchChan, streamWorkers, resultChan, resultClosed,
                   allResults, streamOut>>

\* The sender at the head of its loop: it returns, closing batchChan, when
\* the context is cancelled or the lines are used up and no batch is left;
\* otherwise it takes the next batch of the slice or the next line of the
\* reader, and goes on to send when a batch is ready.
SenderLoop ==
    /\ Started
    /\ sender.at = "loop"
    /\ IF sent < Len(logLines)
       THEN IF ctxDone
            THEN /\ sender' = [sender EXCEPT !.at = "returned"]
                 /\ batchClosed' = TRUE
                 /\ UNCHANGED sent
            ELSE IF entry = "ProcessLargeSlice"
            THEN /\ sender' = [at |-> "send",
                               batch |-> SubSeq(logLines, sent + 1,
                                                Min2(sent + batchSize, Len(logLines)))]
                 /\ sent' = Min2(sent + batchSize, Len(logLines))
                 /\ UNCHANGED batchClosed
            ELSE /\ \E batch \in {IF logLines[sent + 1] # <<>>
                                  THEN Append(sender.batch, logLines[sent + 1])
                                  ELSE sender.batch} :
                      sender' = [at |-> IF logLines[sent + 1] # <<>>
                                           /\ Len(batch) >= batchSize
                                        THEN "send" ELSE "loop",
                                 batch |-> batch]
                 /\ sent' = sent + 1
                 /\ UNCHANGED batchClosed
       ELSE IF entry = "ProcessReader" /\ sender.batch # <<>>
            THEN /\ sender' = [sender EXCEPT !.at = "last"]
                 /\ UNCHANGED <<sent, batchClosed>>
            ELSE /\ sender' = [sender EXCEPT !.at = "returned"]
                 /\ batchClosed' = TRUE
                 /\ UNCHANGED sent
    /\ UNCHANGED <<logLines, config, parseVars, callVars, ctxDone, entry, batchSize,
                   maxWorkers, spc, batchChan, streamWorkers, resultChan, resultClosed,
                   allResults, streamOut>>

\* The sender puts its batch on batchChan once the buffer has room; after
\* the batch that remained at the end of the reader it returns.
SenderSend ==
    /\ Started
    /\ sender.at \in {"send", "last"}
    /\ Len(batchChan) < maxWorkers
    /\ batchChan' = Append(batchChan, sender.batch)
    /\ sender' = [at |-> IF sender.at = "send" THEN "loop" ELSE "returned",
                  batch |-> <<>>]
    /\ batchClosed' = (sender.at = "last")
    /\ UNCHANGED <<logLines, config, parseVars, callVars, ctxDone, entry, batchSize,
                   maxWorkers, spc, sent, streamWorkers, resultChan, resultClosed,
                   allResults, streamOut>>

\* A worker receives a batch: it returns when the context is cancelled and
\* parses the batch otherwise.
WorkerReceive(w) ==
    /\ spc = "running"
    /\ streamWorkers[w].at = "idle"
    /\ batchChan # <<>>
    /\ batchChan' = Tail(batchChan)
    /\ IF ctxDone
       THEN streamWorkers' = [streamWorkers EXCEPT ![w] = [at |-> "exited",
                                                           results |-> <<>>]]
       ELSE \E o \in Parse(Head(batchChan), config, 0) :
               streamWorkers' = [streamWorkers EXCEPT ![w] = [at |-> "sending",
                                                              results |-> o.res]]
    /\ UNCHANGED <<logLines, config, parseVars, callVars, ctxDone, sender, entry,
                   batchSize, maxWorkers, spc, sent, batchClosed, resultChan,
                   resultClosed, allResults, streamOut>>

CancelNext ==
    \/ StreamSmall
    \/ StreamStart
    \/ Cancel
    \/ SenderLoop
    \/ SenderSend
    \/ \E w \in DOMAIN streamWorkers : WorkerReceive(w)
    \/ \E w \in DOMAIN streamWorkers : StreamDeliver(w)
    \/ \E w \in DOMAIN streamWorkers : StreamExit(w)
    \/ StreamCloseResults
    \/ StreamCollect
    \/ StreamReturn

CancelSpec == CancelInit /\ [][CancelNext]_vars

\* Every goroutine that can take a step takes one; nothing makes the
\* context be cancelled.
CancelLiveSpec ==
    /\ CancelSpec
    /\ WF_vars(StreamSmall)
    /\ WF_vars(StreamStart)
    /\ WF_vars(SenderLoop)
    /\ WF_vars(SenderSend)
    /\ \A w \in 1..MaxStreamWorkers : WF_vars(w \in DOMAIN streamWorkers /\ WorkerReceive(w))
    /\ \A w \in 1..MaxStreamWorkers : WF_vars(w \in DOMAIN streamWorkers /\ StreamDeliver(w))
    /\ \A w \in 1..MaxStreamWorkers : WF_vars(w \in DOMAIN streamWorkers /\ StreamExit(w))
    /\ WF_vars(StreamCloseResults)
    /\ WF_vars(StreamCollect)
    /\ WF_vars(StreamReturn)

(***************************************************************************)
(* SIMDPatternMatcher.FastStringSearch applied on its own.  A string is    *)
(* the sequence of its bytes; indices are 0-based as in the code.          *)
(***************************************************************************)
MaxHaystackLen == 10

MaxShortNeedle == 1

\* The bytes of the strings searched.
SearchBytes == {"a", "b"}

\* runtime.GOARCH: the two architectures DetectSIMDCapabilities knows, and
\* another one.
GoArchs == {"amd64", "arm64", "386"}

DetectSIMDCapabilities(goarch) ==
    [HasAVX2 |-> FALSE,
     HasSSE42 |-> goarch = "amd64",
     HasNEON |-> goarch = "arm64",
     HasSVE |-> FALSE,
     Platform |-> goarch]

\* strings.Index: the index of the first occurrence of needle, or -1.
stringsIndex(haystack, needle) ==
    LET found == {i \in 0..(Len(haystack) - Len(needle)) :
                    \A j \in DOMAIN needle : haystack[i + j] = needle[j]}
    IN  IF found = {} THEN -1 ELSE SetMin(found)

\* The map badChar after the loop over the bytes of needle but the last.
badCharTable(needle) ==
    [c \in {needle[i] : i \in 1..(Len(needle) - 1)} |->
        Len(needle) - SetMax({i \in 1..(Len(needle) - 1) : needle[i] = c})]

\* The loop of boyerMooreSearch from the offset skip on.
RECURSIVE boyerMooreLoop(_, _, _, _)
boyerMooreLoop(haystack, needle, badChar, skip) ==
    IF skip > Len(haystack) - Len(needle) THEN -1
    ELSE LET mismatches == {j \in 0..(Len(needle) - 1) :
                              needle[j + 1] # haystack[skip + j + 1]}
         IN  IF mismatches = {} THEN skip
             ELSE IF haystack[skip + SetMax(mismatches) + 1] \in DOMAIN badChar
             THEN boyerMooreLoop(haystack, needle, badChar,
                                 skip + badChar[haystack[skip + SetMax(mismatches) + 1]])
             ELSE boyerMooreLoop(haystack, needle, badChar, skip + Len(needle))

boyerMooreSearch(haystack, needle) ==
    IF Len(needle) = 0 THEN 0
    ELSE IF Len(needle) > Len(haystack) THEN -1
    ELSE boyerMooreLoop(haystack, needle, badCharTable(needle), 0)

optimizedSearch(haystack, needle) ==
    IF Len(needle) > Len(haystack) THEN -1
    ELSE IF Len(needle) > 8 THEN boyerMooreSearch(haystack, needle)
    ELSE stringsIndex(haystack, needle)

FastStringSearch(capabilities, haystack, needle) ==
    IF Len(needle) = 0 THEN 0
    ELSE IF Len(haystack) = 0 THEN -1
    ELSE IF capabilities.HasAVX2 \/ capabilities.HasSSE42 \/ capabilities.HasNEON
    THEN optimizedSearch(haystack, needle)
    ELSE stringsIndex(haystack, needle)

\* The needles: the short ones, and those of the shortest length that
\* optimizedSearch hands to boyerMooreSearch.
Needles ==
    UNION {[1..n -> SearchBytes] : n \in (0..MaxShortNeedle) \cup {9}}

Haystacks ==
    UNION {[1..n -> SearchBytes] : n \in (0..MaxShortNeedle) \cup (9..MaxHaystackLen)}

SearchInit ==
    /\ logLines = <<>>
    /\ config = New(ZeroConfig)
    /\ ParseIdle
    /\ NoStream
    /\ fn = "FastStringSearch"
    /\ args \in [goarch : GoArchs]
    /\ ret = <<>>

FastStringSearchCall ==
    /\ fn = "FastStringSearch"
    /\ ret = <<>>
    /\ \E haystack \in Haystacks, needle \in Needles :
          ret' = <<[haystack |-> haystack,
                    needle |-> needle,
                    index |-> FastStringSearch(DetectSIMDCapabilities(args.goarch),
                                               haystack, needle)]>>
    /\ UNCHANGED <<logLines, config, parseVars, fn, args, streamVars>>

SearchSpec == SearchInit /\ [][FastStringSearchCall]_vars

(***************************************************************************)
(* New applied on its own, and Parse by the parser it returned.  args      *)
(* holds the Config: its numeric fields in args.config, its Delimiters, "" *)
(* when not set, and the patterns of its CommonVariables, <<>> for nil.    *)
(* A pattern is taken for what regexp.MustCompile does with it: it panics  *)
(* on "[" and compiles the others.                                         *)
(***************************************************************************)
Patterns == {"[ ,:=]", "[0-9]+", "["}

Compiles(pattern) == pattern # "["

\* NewPreprocessor: whether it returns, or panics in regexp.MustCompile.
NewPreprocessor(delimiters, commonVariables) ==
    /\ \A i \in DOMAIN commonVariables : Compiles(commonVariables[i])
    /\ Compiles(delimiters)

\* What a call of New yields: a panic, or the parser with its Config.
NewParser(a) ==
    IF NewPreprocessor(IF a.Delimiters = "" THEN "[\\s,:=]" ELSE a.Delimiters,
                       a.CommonVariables)
    THEN [panicked |-> FALSE, config |-> New(a.config)]
    ELSE [panicked |-> TRUE, config |-> ZeroConfig]

NewConfigs ==
    {[ZeroConfig EXCEPT !.ChildBranchThreshold = c,
                        !.Weight = w,
                        !.ParallelProcessingThreshold = p] :
     c \in {-1, 0, 3}, w \in {-50, 0, 50, 150}, p \in {-1, 0, 1}}

NewInit ==
    /\ logLines \in {<<<<"k", "7">>, <<"k", "z">>>>, <<<<"k">>, <<"z">>, <<"7">>>>}
    /\ config = ZeroConfig
    /\ ParseIdle
    /\ NoStream
    /\ fn = "New"
    /\ args \in [config : NewConfigs,
                 Delimiters : {""} \cup Patterns,
                 CommonVariables : {<<>>} \cup {<<p>> : p \in Patterns}]
    /\ ret = <<>>

NewCall ==
    /\ fn = "New"
    /\ ret = <<>>
    /\ ret' = <<NewParser(args)>>
    /\ config' = NewParser(args).config
    /\ UNCHANGED <<logLines, parseVars, fn, args, streamVars>>

\* Parse by the parser that New returned, for the default Delimiters and
\* CommonVariables.
ParseByNew ==
    /\ fn = "New"
    /\ Len(ret) = 1
    /\ ~ret[1].panicked
    /\ args.Delimiters = ""
    /\ args.CommonVariables = <<>>
    /\ \E o \in Parse(logLines, config, 0) : ret' = Append(ret, o.res)
    /\ UNCHANGED <<logLines, config, parseVars, fn, args, streamVars>>

NewNext == NewCall \/ ParseByNew

NewSpec == NewInit /\ [][NewNext]_vars

(***************************************************************************)
(* The properties.                                                         *)
(***************************************************************************)
Returned == pc = "done"

SumCounts(rs) == SumSeq([i \in DOMAIN rs |-> rs[i].Count])

\* The masked tokens of line id of the input of the running call.
MaskedTokens(id) ==
    LET words == PreprocessLogs(logLines)[id + 1].Words
    IN  [j \in DOMAIN words |-> words[j].Value]

\* The tokens agree with the template wherever the template is not <*>.
MatchesTemplate(tokens, template) ==
    \A j \in DOMAIN template :
        template[j] # WILDCARD => j \in DOMAIN tokens /\ tokens[j] = template[j]

\* C1: when Parse returns, the counts of its results sum to the number of
\* input lines.
CountsSumToInput == Returned => SumCounts(results) = Len(logLines)

\* C2: in every result Parse returns, there are as many LogIDs as Count says,
\* they are pairwise distinct, and each of them is the index of an input line.
LogIDsWellFormed ==
    Returned =>
        \A i \in DOMAIN results :
            LET ids == results[i].LogIDs IN
            /\ Len(ids) = results[i].Count
            /\ \A a, b \in DOMAIN ids : a # b => ids[a] # ids[b]
            /\ \A a \in DOMAIN ids : ids[a] \in 0..(Len(logLines) - 1)

\* C3: every line a result names by a LogID has, after masking, the tokens
\* of the result's template at each position where the template is not <*>.
LogsMatchTemplate ==
    Returned =>
        \A i \in DOMAIN results :
            \A a \in DOMAIN results[i].LogIDs :
                LET id == results[i].LogIDs[a] IN
                /\ id \in 0..(Len(logLines) - 1)
                /\ MatchesTemplate(MaskedTokens(id), results[i].Template)

\* C4: a second call of Parse on the same lines with the same Config returns
\* the multiset of (template, count) pairs the first call returned.
SameCallSameResults ==
    (Returned /\ run = 2 /\ kind = "same") => TemplateCounts(results) = first.results

\* C5: on an input with a group that reaches the parallel threshold, the call
\* through the worker pool and the call through the sequential loop return
\* the same multiset of (template, count) pairs.
ParallelEqualsSequential ==
    (Returned /\ run = 2 /\ kind = "mode" /\ logLines # <<>>) =>
        TemplateCounts(results) = first.results

\* The measure every step of the two calls lowers.
PcRank(at) ==
    CASE at = "idle" -> 5
      [] at = "sending" -> 4
      [] at = "sequential" -> 3
      [] at = "collecting" -> 3
      [] at = "aggregate" -> 2
      [] OTHER -> 1

StepsLeft ==
    (2 - run) * 1000 + PcRank(pc) * 100 + 3 * (Len(groupSlice) + 1 - next)
    + 2 * Len(workChan) + Len(resultsChan)
    + Cardinality({w \in DOMAIN workers : workers[w] = "running"})
    + (IF resultsClosed THEN 0 ELSE 1)

ReparseConfigs(cfg) == {relaxedConfig(cfg), noEnhancedConfig(cfg), originalConfig(cfg)}

\* A step of the running call is possible.
CanStep ==
    \/ pc = "idle" /\ Grouped(logLines, config) # {}
    \/ /\ pc = "sequential"
       /\ Built(initialGroups[groupSlice[next]], processedLogs, config) # {}
    \/ /\ pc \in {"sending", "collecting"}
       /\ workChan # <<>>
       /\ \E w \in DOMAIN workers : workers[w] = "running"
       /\ Built(initialGroups[Head(workChan)], processedLogs, config) # {}
    \/ pc = "aggregate" /\ aggregateResults(allTemplates) # {}
    \/ ENABLED (\/ SendWork
                \/ CloseWork
                \/ \E w \in DOMAIN workers : WorkerExit(w)
                \/ CloseResults
                \/ Collect
                \/ CollectDone)

ReparseBounded ==
    /\ \A derived \in ReparseConfigs(config) : New(derived).isReparsing
    /\ deep <= 1
    /\ lastGroup.deep <= 1
    /\ lastGroup.nested <= 3
    /\ ~Returned => CanStep
    /\ StepsLeft >= 0

\* C6: every parser a reparse creates has isReparsing set, no Parse call is
\* nested deeper than one level, processing a group starts at most three
\* nested Parse calls, and the outer Parse returns: until it has, a step is
\* possible, and every step lowers a measure that is never negative.
ReparseTerminates == []ReparseBounded /\ [][StepsLeft' < StepsLeft]_vars

\* Processing a group with bad results has started three nested Parse calls,
\* none nested deeper than one level.
ThreeNestedCalls == lastGroup.nested = 3 /\ lastGroup.deep = 1 /\ deep = 1

\* The concatenation of the LogIDs of the results of rs with template t.
LogIDsOf(rs, t) ==
    Flatten([i \in DOMAIN rs |-> IF rs[i].Template = t THEN rs[i].LogIDs ELSE <<>>])

CountOf(rs, t) == SumSeq([i \in DOMAIN rs |-> IF rs[i].Template = t THEN rs[i].Count ELSE 0])

\* C7: what aggregateResults returns has exactly one result for each template
\* of its argument, with the sum of the counts and the concatenation of the
\* LogIDs of the results of that template, and the same total count.
AggregatesByTemplate ==
    Returned =>
        /\ {results[i].Template : i \in DOMAIN results}
               = {allTemplates[i].Template : i \in DOMAIN allTemplates}
        /\ \A i, j \in DOMAIN results : results[i].Template = results[j].Template => i = j
        /\ \A i \in DOMAIN results :
               /\ results[i].Count = CountOf(allTemplates, results[i].Template)
               /\ results[i].LogIDs = LogIDsOf(allTemplates, results[i].Template)
        /\ SumCounts(results) = SumCounts(allTemplates)

\* Parse has returned a result that aggregateResults merged from the results
\* of two groups, one line each.
MergedTwoResults ==
    /\ Returned
    /\ \E i \in DOMAIN results :
           /\ Cardinality({j \in DOMAIN allTemplates :
                              allTemplates[j].Template = results[i].Template}) = 2
           /\ results[i].Count = 2
           /\ Len(results[i].LogIDs) = 2
           /\ results[i].LogIDs[1] # results[i].LogIDs[2]

\* C8: two lines named by the LogIDs of the same result have the same number
\* of tokens.
SameTemplateSameLength ==
    Returned =>
        \A i \in DOMAIN results :
            \A a, b \in DOMAIN results[i].LogIDs :
                LET ida == results[i].LogIDs[a]
                    idb == results[i].LogIDs[b]
                IN  (ida < Len(logLines) /\ idb < Len(logLines)) =>
                        Len(logLines[ida + 1]) = Len(logLines[idb + 1])

\* The multiset with every count doubled.
Doubled(bag) ==
    [p \in {<<q[1], 2 * q[2]>> : q \in DOMAIN bag} |-> bag[<<p[1], p[2] \div 2>>]]

\* C9: Parse of the lines twice over returns the templates Parse of the lines
\* returned, each with twice the count.
DoublingDoublesCounts ==
    (Returned /\ run = 2 /\ kind = "double") =>
        TemplateCounts(results) = Doubled(first.results)

\* The nodes of the child direction below and including node.
RECURSIVE NodesOf(_)
NodesOf(node) ==
    {node} \cup UNION {NodesOf(node.Children[label]) : label \in DOMAIN node.Children}

TreeNodes == IF tree = NoTree THEN {} ELSE NodesOf(tree.ChildDirectionRoot)

\* The column the children of a node stand for.
ChildColumn(node) == node.Children[CHOOSE label \in DOMAIN node.Children : TRUE].Position

\* The node has a single <*> child that owns all its logs.
Collapsed(node) ==
    /\ DOMAIN node.Children = {WILDCARD}
    /\ node.Children[WILDCARD].IsVariable
    /\ node.Children[WILDCARD].Logs = node.Logs

\* The node has one constant child per value of the column, owning the logs
\* with that value.
SplitByValue(node) ==
    /\ DOMAIN node.Children = uniqueWords(node.Logs, ChildColumn(node))
    /\ \A word \in DOMAIN node.Children :
           /\ ~node.Children[word].IsVariable
           /\ node.Children[word].Value = word
           /\ node.Children[word].Logs = LogsWithWord(node.Logs, ChildColumn(node), word)

\* C10: in the tree built last, a node with children has a single <*> child
\* owning all its logs when its column has more distinct values than the
\* threshold, and otherwise one constant child per distinct value.
CollapseIffAboveThreshold ==
    \A node \in TreeNodes :
        DOMAIN node.Children # {} =>
            LET u == countUniqueWordsInColumn(node.Logs, ChildColumn(node))
                threshold == calculateDynamicThreshold(u, config)
            IN  /\ u > threshold => Collapsed(node) /\ ~SplitByValue(node)
                /\ u <= threshold => SplitByValue(node) /\ ~Collapsed(node)
\* A column with exactly as many distinct values as the threshold, two or
\* more, is split into one constant child per value.
SplitAtThreshold ==
    \E node \in TreeNodes :
        /\ DOMAIN node.Children # {}
        /\ LET u == countUniqueWordsInColumn(node.Logs, ChildColumn(node))
           IN  /\ u >= 2
               /\ u = calculateDynamicThreshold(u, config)
               /\ Cardinality(DOMAIN node.Children) = u
               /\ SplitByValue(node)

\* A column with more distinct values than the threshold is collapsed.
CollapsedAboveThreshold ==
    \E node \in TreeNodes :
        /\ DOMAIN node.Children # {}
        /\ countUniqueWordsInColumn(node.Logs, ChildColumn(node))
               > calculateDynamicThreshold(
                     countUniqueWordsInColumn(node.Logs, ChildColumn(node)), config)
        /\ Collapsed(node)

\* The number of lines a call of the StreamingProcessor is to account for.
StreamInputCount == Len(StreamLines)

\* C11: with a context that is never cancelled, the counts of the results of
\* ProcessLargeSlice sum to the number of its lines, and those of
\* ProcessReader to the number of non-empty lines, for every batch size and
\* every number of workers.
StreamCountsSumToInput ==
    spc = "done" => SumCounts(streamOut) = StreamInputCount


\* The checks of isQualityTemplate other than the run of <*> tokens: the
\* template has tokens, enough of them are content words, and not all are <*>.
OtherQualityChecksPass(template, cfg) ==
    /\ Len(template) > 0
    /\ 100 * Cardinality({i \in DOMAIN template : template[i] # WILDCARD})
          >= cfg.MinContentWordsRatio * Len(template)
    /\ \E i \in DOMAIN template : template[i] # WILDCARD

\* C12: a parser built by New from a Config with MaxConsecutiveWildcards = 0
\* finds no template low quality because of its run of <*> tokens: a
\* template that passes the other checks is a quality template.
ZeroDisablesRunCheck ==
    (fn = "isQualityTemplate" /\ ret # <<>> /\ args.config.MaxConsecutiveWildcards = 0)
        => (OtherQualityChecksPass(args.template, config) => ret[1])


\* C13: Parse of no lines returns no results, whatever the Config, and on
\* the way every step of the call is possible.
EmptyInputEmptyOutput ==
    logLines = <<>> =>
        /\ Returned => results = <<>>
        /\ pc = "idle" => Grouped(logLines, config) # {}
        /\ pc = "aggregate" => aggregateResults(allTemplates) # {}
        /\ pc \in {"idle", "aggregate", "done"}

\* Parse of no lines has returned.
EmptyInputParsed == Returned /\ logLines = <<>> /\ allTemplates = <<>>


\* The input is n >= 1 copies of one line.
CopiesOfOneLine == logLines # <<>> /\ \A i \in DOMAIN logLines : logLines[i] = logLines[1]

\* C14: Parse of n >= 1 copies of a line returns exactly one result, whose
\* count is n.
CopiesGiveOneResult ==
    (Returned /\ CopiesOfOneLine) =>
        Len(results) = 1 /\ results[1].Count = Len(logLines)

\* Parse of several copies of a line has returned.
\* Parse of several copies of a line has returned, the line one whose last
\* word is rarer than its first two.
CopiesParsed ==
    /\ Returned
    /\ CopiesOfOneLine
    /\ Len(logLines) >= 2
    /\ Len(logLines[1]) = 3
    /\ logLines[1][1] = logLines[1][2]
    /\ logLines[1][2] # logLines[1][3]
    /\ Len(results) = 1

\* C15: with UseEnhancedPostProcessing on, no template Parse returns has more
\* than MaxConsecutiveWildcards <*> tokens in a row.
NoLongWildcardRun ==
    (Returned /\ config.UseEnhancedPostProcessing) =>
        \A i \in DOMAIN results :
            maxConsecutiveWildcards(results[i].Template) <= config.MaxConsecutiveWildcards

\* The keys of the groups that hold the log of the given ID.
GroupsOf(id) ==
    {key \in DOMAIN initialGroups :
        \E i \in DOMAIN initialGroups[key].Logs : initialGroups[key].Logs[i].ID = id}

\* C16: the groups CreateInitialGroups returns are the classes of the logs
\* under (number of tokens, Longest Common Pattern): every log is in exactly
\* one group, and two logs are in the same group exactly when they have the
\* same number of tokens and the same pattern.
GroupsAreClasses ==
    pc # "idle" =>
        /\ \A i \in DOMAIN processedLogs :
               Cardinality(GroupsOf(processedLogs[i].ID)) = 1
        /\ \A i, j \in DOMAIN processedLogs :
               (GroupsOf(processedLogs[i].ID) \cap GroupsOf(processedLogs[j].ID) # {})
               <=> /\ Len(processedLogs[i].Words) = Len(processedLogs[j].Words)
                   /\ findLongestWordCombination(processedLogs[i], config)
                        = findLongestWordCombination(processedLogs[j], config)

\* The places of the results of the last group where the ID is listed.
ListedAt(id) ==
    {<<r, j>> \in (DOMAIN lastGroup.res) \X (1..MaxLines) :
        j \in DOMAIN lastGroup.res[r].LogIDs /\ lastGroup.res[r].LogIDs[j] = id}

\* C17: when the templates of a group went through
\* reparseWithRelaxedSettings, a log that a good result of a level covers is
\* not parsed again by a later level, so the results of the group list
\* every log of the group exactly once and no other log.
ReparseCoversOnce ==
    lastGroup.nested > 0 =>
        /\ \A i \in DOMAIN tree.ChildDirectionRoot.Logs :
               Cardinality(ListedAt(tree.ChildDirectionRoot.Logs[i].ID)) = 1
        /\ \A id \in Range(AllLogIDs(lastGroup.res)) :
               \E i \in DOMAIN tree.ChildDirectionRoot.Logs :
                   tree.ChildDirectionRoot.Logs[i].ID = id

\* The results reparseWithRelaxedSettings gave for the last group, when good
\* and bad are the two parts of the templates of its tree.
Reparsed(split) == SubSeq(lastGroup.res, Len(split.good) + 1, Len(lastGroup.res))

\* C18: when no level of the reparse gives a template that passes the
\* quality filter, reparseWithRelaxedSettings returns the bad results it was
\* given: the same templates, counts and LogIDs.
ReparseKeepsBadResults ==
    (/\ lastGroup.nested > 0
     /\ \A i \in DOMAIN lastGroup.res :
            isQualityTemplate(lastGroup.res[i].Template, config)
                => \E orig \in collectTemplatesFromNode(tree.ChildDirectionRoot,
                                   baseTemplateOf(tree), NoTemplate, config) :
                       i <= Len(filterLowQualityTemplates(orig, config).good))
    => \E orig \in collectTemplatesFromNode(tree.ChildDirectionRoot,
                       baseTemplateOf(tree), NoTemplate, config) :
           \E split \in {filterLowQualityTemplates(orig, config)} :
               Reparsed(split) = split.bad

\* processGroupsParallel is running, or has returned to Parse.
PoolRunning == pc \in {"sending", "collecting"}

PoolReturned == pc = "aggregate" /\ workers # <<>>

\* The groups the workers have received, worker after worker.
Handled == Flatten(handled)

\* No entry occurs twice.
Injective(s) == \A i, j \in DOMAIN s : s[i] = s[j] => i = j

\* A step of the pool or of its caller is possible.
PoolCanStep ==
    \/ pc = "sending"
    \/ workChan # <<>> /\ \E w \in DOMAIN workers : workers[w] = "running"
    \/ workClosed /\ workChan = <<>> /\ \E w \in DOMAIN workers : workers[w] = "running"
    \/ ~resultsClosed /\ \A w \in DOMAIN workers : workers[w] = "exited"
    \/ resultsChan # <<>>
    \/ resultsClosed

\* While the pool runs: the two channels never hold more than their buffer
\* of len(groups), so no send blocks; every group sent so far is either
\* waiting in workChan or was received by one worker, once; there is one
\* batch of templates per group received; resultsChan is closed only when
\* every worker has returned; and some step is possible.  When the pool has
\* returned, every worker has returned, every group was received once and
\* one batch per group was collected.
WorkerPoolInv ==
    /\ PoolRunning =>
          /\ Len(workChan) <= Len(groupSlice)
          /\ Len(resultsChan) <= Len(groupSlice)
          /\ Injective(Handled \o workChan)
          /\ Range(Handled \o workChan) = Range(SubSeq(groupSlice, 1, next - 1))
          /\ Len(resultsChan) + collected = Len(Handled)
          /\ resultsClosed =>
                /\ workChan = <<>>
                /\ \A w \in DOMAIN workers : workers[w] = "exited"
          /\ PoolCanStep
    /\ PoolReturned =>
          /\ \A w \in DOMAIN workers : workers[w] = "exited"
          /\ Injective(Handled)
          /\ Range(Handled) = Range(groupSlice)
          /\ collected = Len(groupSlice)
          /\ resultsChan = <<>>

\* A step while the pool runs lowers the measure, changes the list of at most
\* one worker, by one group at its end, and alters no batch that is in
\* resultsChan.
PoolStep ==
    (PoolRunning /\ pc' # "done") =>
        /\ StepsLeft' < StepsLeft
        /\ \A w \in DOMAIN handled :
               \/ handled'[w] = handled[w]
               \/ /\ workChan # <<>>
                  /\ handled'[w] = Append(handled[w], Head(workChan))
                  /\ \A v \in DOMAIN handled : v # w => handled'[v] = handled[v]
        /\ \/ resultsChan' = resultsChan
           \/ resultsChan # <<>> /\ resultsChan' = Tail(resultsChan)
           \/ resultsChan' = Append(resultsChan, lastGroup'.res)

\* C19: processGroupsParallel hands every group to exactly one worker exactly
\* once, never blocks forever, returns only after every worker has finished,
\* and collects exactly one batch of templates per group; no worker touches
\* the list or the batches of another worker.
PoolHandsOutOnce == []WorkerPoolInv /\ [][PoolStep]_vars

\* The pool has returned after two workers each processed a group.
TwoWorkersShared ==
    /\ PoolReturned
    /\ Len(groupSlice) = 2
    /\ \A w \in DOMAIN handled : Len(handled[w]) = 1

\* The masked values the logs of a leaf carry in column q; the leaf is given
\* by the result collected from it.
LeafValues(out, r, q) ==
    {out.logs[id + 1].Words[q + 1].Value : id \in Range(r.LogIDs)}

\* C20: for every leaf of the tree and every column q of the parent
\* direction, the token at q in the template of the leaf is the value v when
\* all logs of the leaf carry v at q, and <*> when they carry more than one
\* value, whether or not q is variable over the whole group.
LeafParentTokens ==
    \A i \in DOMAIN ret :
        \A j \in DOMAIN ret[i].results :
            \A k \in DOMAIN ret[i].tree.ParentColumns :
                \E q \in {ret[i].tree.ParentColumns[k]} :
                  \E vals \in {LeafValues(ret[i], ret[i].results[j], q)} :
                    /\ Cardinality(vals) = 1 => ret[i].results[j].Template[q + 1] \in vals
                    /\ Cardinality(vals) > 1 => ret[i].results[j].Template[q + 1] = WILDCARD

\* A group whose parent column is variable was split into two leaves, each
\* with a single value in that column.
LeafConstantInVariableColumn ==
    \E i \in DOMAIN ret :
        /\ Len(ret[i].results) = 2
        /\ \E k \in DOMAIN ret[i].tree.ParentColumns :
              \E q \in {ret[i].tree.ParentColumns[k]} :
                /\ ret[i].tree.ParentDirection[q].IsVariable
                /\ \A j \in DOMAIN ret[i].results :
                      ret[i].results[j].Template[q + 1] # WILDCARD

\* The leaves below a node of the child direction: the columns of the nodes
\* on the path to the leaf, in order, and the logs of the leaf.
RECURSIVE LeafPaths(_, _)
LeafPaths(node, cols) ==
    IF DOMAIN node.Children = {} THEN {[cols |-> cols, logs |-> node.Logs]}
    ELSE UNION {LeafPaths(node.Children[word],
                          Append(cols, node.Children[word].Position)) :
                word \in DOMAIN node.Children}

\* The columns of the child direction of a tree: those that are neither of
\* the root nor of the parent direction.
ChildColumns(t) ==
    (0..(Len(t.ChildDirectionRoot.Logs[1].Words) - 1))
    \ ({t.RootNodes[i].Position : i \in DOMAIN t.RootNodes} \cup Range(t.ParentColumns))

\* C21: in the tree built for a group every log of the group lies in
\* exactly one leaf, and the path to every leaf has exactly one node per
\* child column, although the recursive calls for sibling subgroups sort the
\* same slice of remaining columns in place.
LeavesPartitionLogs ==
    \A i \in DOMAIN ret :
        \E leaves \in {LeafPaths(ret[i].tree.ChildDirectionRoot, <<>>)} :
            /\ \A n \in DOMAIN ret[i].tree.ChildDirectionRoot.Logs :
                  Cardinality({leaf \in leaves :
                      \E m \in DOMAIN leaf.logs :
                          leaf.logs[m].ID = ret[i].tree.ChildDirectionRoot.Logs[n].ID}) = 1
            /\ \A leaf \in leaves :
                  /\ Range(leaf.cols) = ChildColumns(ret[i].tree)
                  /\ Len(leaf.cols) = Cardinality(ChildColumns(ret[i].tree))

\* Two sibling subgroups took the two remaining columns in opposite orders.
SiblingsSortDifferently ==
    \E i \in DOMAIN ret :
        \E a, b \in LeafPaths(ret[i].tree.ChildDirectionRoot, <<>>) :
            /\ Len(a.cols) = 3
            /\ a.cols[1] = b.cols[1]
            /\ a.cols[2] = b.cols[3]
            /\ a.cols[3] = b.cols[2]

\* The positions of the root nodes of a tree.
RootPositions(t) == {t.RootNodes[i].Position : i \in DOMAIN t.RootNodes}

\* The columns of the nodes of the child direction of a tree.
PathColumns(t) == UNION {Range(leaf.cols) : leaf \in LeafPaths(t.ChildDirectionRoot, <<>>)}

\* Root, parent and child columns of the tree t partition the positions of
\* the logs; a parent column has a word more frequent than the pattern, a
\* child column has none.
Classified(t, logs) ==
    /\ Injective(t.ParentColumns)
    /\ RootPositions(t) \cap Range(t.ParentColumns) = {}
    /\ RootPositions(t) \cap PathColumns(t) = {}
    /\ Range(t.ParentColumns) \cap PathColumns(t) = {}
    /\ RootPositions(t) \cup Range(t.ParentColumns) \cup PathColumns(t)
         = 0..(Len(logs[1].Words) - 1)
    /\ \A q \in Range(t.ParentColumns) :
          \E n \in DOMAIN logs : logs[n].Words[q + 1].Frequency > t.RootPattern.Frequency
    /\ \A q \in PathColumns(t) :
          \A n \in DOMAIN logs : logs[n].Words[q + 1].Frequency <= t.RootPattern.Frequency

\* C22: BuildTreeForGroup makes every column that is not of the root
\* pattern either a parent column (maximum frequency above the frequency of
\* the pattern) or a child column (maximum at most that frequency), so the
\* three kinds partition the positions 0..k-1.
ColumnsPartition ==
    \A i \in DOMAIN ret : Classified(ret[i].tree, ret[i].tree.ChildDirectionRoot.Logs)

\* A tree with a root, a parent and a child column, whose parent column has
\* words of a frequency above and of a frequency below that of the pattern.
ThreeKindsOfColumns ==
    \E i \in DOMAIN ret :
        /\ RootPositions(ret[i].tree) # {}
        /\ PathColumns(ret[i].tree) # {}
        /\ \E q \in Range(ret[i].tree.ParentColumns) :
              \E n \in DOMAIN ret[i].tree.ChildDirectionRoot.Logs :
                  ret[i].tree.ChildDirectionRoot.Logs[n].Words[q + 1].Frequency
                      < ret[i].tree.RootPattern.Frequency

\* The number of words of a log at a frequency, and the total length of
\* their values.
LevelCount(log, f) == Cardinality({j \in DOMAIN log.Words : log.Words[j].Frequency = f})

LevelLength(log, f) ==
    SumSeq([j \in DOMAIN log.Words |->
               IF log.Words[j].Frequency = f THEN WordLen(log.Words[j].Value) ELSE 0])

\* The levels of a log that reach the threshold maxFreq x Weight.
PassingLevels(log, cfg) ==
    {f \in FreqLevels(log) :
        \A g \in FreqLevels(log) : 100 * f >= g * cfg.Weight}

\* Level f is at least as good as level g: more words, or as many and
\* longer, or as many and as long and at least as frequent.
LevelBeats(log, f, g) ==
    \/ LevelCount(log, f) > LevelCount(log, g)
    \/ /\ LevelCount(log, f) = LevelCount(log, g)
       /\ LevelLength(log, f) > LevelLength(log, g)
    \/ /\ LevelCount(log, f) = LevelCount(log, g)
       /\ LevelLength(log, f) = LevelLength(log, g)
       /\ f >= g

TwoFrequencyCase(log) ==
    Cardinality(FreqLevels(log)) = 2 /\ isTwoFrequencyVariableLog(log)

\* C23: outside the two-frequency case findLongestWordCombination returns
\* the words of one frequency level of the log: among the levels that reach
\* maxFreq x Weight the one with the most words, then the greatest total
\* length, then the highest frequency; and the most frequent level when no
\* level reaches the threshold.
LongestCombinationChosen ==
    \A i \in DOMAIN ret :
        ~TwoFrequencyCase(ret[i].log) =>
            /\ ret[i].combo.Words
                 = SelectSeq(ret[i].log.Words,
                             LAMBDA wd : wd.Frequency = ret[i].combo.Frequency)
            /\ IF PassingLevels(ret[i].log, config) # {}
               THEN /\ ret[i].combo.Frequency \in PassingLevels(ret[i].log, config)
                    /\ \A g \in PassingLevels(ret[i].log, config) :
                          LevelBeats(ret[i].log, ret[i].combo.Frequency, g)
               ELSE \A g \in FreqLevels(ret[i].log) : ret[i].combo.Frequency >= g

\* A level that is not the most frequent one was chosen for its length
\* among levels of as many words.
LongerLevelChosen ==
    \E i \in DOMAIN ret :
        /\ ~TwoFrequencyCase(ret[i].log)
        /\ \E g \in PassingLevels(ret[i].log, config) :
              /\ g > ret[i].combo.Frequency
              /\ LevelCount(ret[i].log, g) = LevelCount(ret[i].log, ret[i].combo.Frequency)

\* C24: every template collected for a group whose logs have k >= 1 tokens
\* has exactly k tokens, one per column, whatever the values of the tokens,
\* the text ROOT included.
TemplateHasAllColumns ==
    \A i \in DOMAIN ret :
        \A j \in DOMAIN ret[i].results :
            Len(ret[i].results[j].Template) = Len(ret[i].tree.ChildDirectionRoot.Logs[1].Words)

\* The positions of the input that hold the raw token w.
Occurrences(w) ==
    UNION {{<<a, b>> : b \in {c \in DOMAIN logLines[a] : logLines[a][c] = w}} :
           a \in DOMAIN logLines}

\* C25: PreprocessLogs returns one LogMessage per input line, in input order,
\* with ID the 0-based index of the line and word positions 0..k-1, and the
\* Frequency of each word is the number of occurrences of its raw token over
\* all tokens of all input lines, also where the value is masked to <*>.
PreprocessedInOrder ==
    (fn = "PreprocessLogs" /\ ret # <<>>) =>
        /\ Len(ret[1]) = Len(logLines)
        /\ \A i \in DOMAIN logLines :
              /\ ret[1][i].ID = i - 1
              /\ ret[1][i].Content = logLines[i]
              /\ Len(ret[1][i].Words) = Len(logLines[i])
              /\ \A j \in DOMAIN logLines[i] :
                    /\ ret[1][i].Words[j].Position = j - 1
                    /\ ret[1][i].Words[j].Frequency =
                          Cardinality(Occurrences(logLines[i][j]))
                    /\ ret[1][i].Words[j].Value \in {logLines[i][j], WILDCARD}

\* A number masked to <*> that occurs twice, next to a raw token <*>.
MaskedWordKeepsRawFrequency ==
    /\ fn = "PreprocessLogs"
    /\ ret # <<>>
    /\ \E i \in DOMAIN logLines : \E j \in DOMAIN logLines[i] :
          /\ logLines[i][j] = "7"
          /\ ret[1][i].Words[j].Value = WILDCARD
          /\ ret[1][i].Words[j].Frequency = 2
          /\ Occurrences(WILDCARD) # {}
          /\ i > 1

\* The four ways of a template to be of low quality under the Config c.
LowQuality(t, c) ==
    \/ Len(t) = 0
    \/ /\ c.MaxConsecutiveWildcards > 0
       /\ \E i \in 1..(Len(t) - c.MaxConsecutiveWildcards) :
             \A j \in i..(i + c.MaxConsecutiveWildcards) : t[j] = WILDCARD
    \/ 100 * Cardinality({i \in DOMAIN t : t[i] # WILDCARD})
          < c.MinContentWordsRatio * Len(t)
    \/ \A i \in DOMAIN t : t[i] = WILDCARD

\* C26: isQualityTemplate(t) is false exactly when t has no tokens, or its
\* longest run of consecutive <*> tokens exceeds a positive
\* MaxConsecutiveWildcards, or the share of tokens other than <*> is below
\* MinContentWordsRatio, or all tokens are <*>; filterLowQualityTemplates puts
\* every result into exactly one of good and bad accordingly.
QualityDecidesGoodAndBad ==
    /\ (fn = "isQualityTemplate" /\ ret # <<>>) =>
          (ret[1] = FALSE <=> LowQuality(args.template, config))
    /\ (fn = "filterLowQualityTemplates" /\ ret # <<>>) =>
          \A i \in DOMAIN args.results :
             LET r == args.results[i]
                 inGood == {k \in DOMAIN ret[1].good : ret[1].good[k] = r}
                 inBad == {k \in DOMAIN ret[1].bad : ret[1].bad[k] = r}
             IN  /\ Cardinality(inGood) + Cardinality(inBad) = 1
                 /\ inBad # {} <=> LowQuality(r.Template, config)
                 /\ Len(ret[1].good) + Len(ret[1].bad) = Len(args.results)

\* A good and a bad result come out of one call, the good one with two <*>
\* tokens apart from each other under the limit 1.
GoodAndBadSeparated ==
    /\ fn = "filterLowQualityTemplates"
    /\ ret # <<>>
    /\ config.MaxConsecutiveWildcards = 1
    /\ Len(ret[1].bad) = 1
    /\ Len(ret[1].good) = 1
    /\ ret[1].good[1].Template = <<WILDCARD, "k", WILDCARD, "k">>
    /\ ret[1].bad[1].Template = <<WILDCARD, WILDCARD, "k", "k">>

\* The children of a node that holds the logs, and all below them, are
\* constant branches where the column has at most 2 words in the logs and
\* the one branch <*> where it has more than 10.
RECURSIVE BranchedByCount(_, _)
BranchedByCount(children, logs) ==
    \/ children = NoChildren
    \/ \E pos \in {children[w].Position : w \in DOMAIN children} :
          LET words == {logs[i].Words[pos + 1].Value : i \in DOMAIN logs} IN
          /\ \A w \in DOMAIN children : children[w].Position = pos
          /\ Cardinality(words) <= 2 =>
                /\ DOMAIN children = words
                /\ \A w \in words :
                      /\ ~children[w].IsVariable
                      /\ children[w].Value = w
          /\ Cardinality(words) > 10 =>
                /\ DOMAIN children = {WILDCARD}
                /\ children[WILDCARD].IsVariable
          /\ \A w \in DOMAIN children :
                BranchedByCount(children[w].Children, children[w].Logs)

\* The Config with another ChildBranchThreshold.
OtherThresholds == {[config EXCEPT !.ChildBranchThreshold = c] : c \in {1, 2, 7, 12}}

\* C27: with UseDynamicThreshold on, the threshold of a child column lies in
\* 2..10 and is the same under every ChildBranchThreshold; a column with at
\* most 2 distinct values in the current subset is split into constant
\* branches and one with more than 10 is collapsed to <*>.
DynamicThresholdBounded ==
    /\ (fn = "calculateDynamicThreshold" /\ ret # <<>> /\ config.UseDynamicThreshold) =>
          /\ ret[1] \in 2..10
          /\ \A other \in OtherThresholds :
                calculateDynamicThreshold(args.uniqueWordsCount, other) = ret[1]
    /\ (fn = "updateChildDirection" /\ ret # <<>>) =>
          /\ BranchedByCount(ret[1], DynamicLogs(logLines))
          /\ \A other \in OtherThresholds :
                \E r \in updateChildDirection(<<>>, other, DynamicLogs(logLines),
                                               args.childCols, 1) :
                   r.Children = ret[1]

\* Under the ChildBranchThreshold 1 the column of the two blocks is split
\* and, in each of the two subsets, the column of 11 words is collapsed.
SplitThenCollapsed ==
    /\ fn = "updateChildDirection"
    /\ ret # <<>>
    /\ config.ChildBranchThreshold = 1
    /\ DOMAIN ret[1] = {"w", "x"}
    /\ \A w \in {"w", "x"} :
          /\ DOMAIN ret[1][w].Children = {WILDCARD}
          /\ Len(ret[1][w].Logs) = 11
          /\ ret[1][w].Children[WILDCARD].Position = 0

\* The call has returned and every goroutine it started has terminated.
AllTerminated ==
    /\ spc = "done"
    /\ streamWorkers # <<>> =>
          /\ sender.at = "returned"
          /\ \A w \in DOMAIN streamWorkers : streamWorkers[w].at = "exited"
          /\ resultClosed

\* C28: ProcessLargeSlice and ProcessReader return and every goroutine they
\* start (the workers, the sender of the batches, the closer of resultChan)
\* terminates, also when the context is cancelled at any moment of the run:
\* the sender does not stay blocked on batchChan, nor a worker on resultChan.
StreamingTerminates == <>AllTerminated

\* The run was cancelled with lines not yet sent and a batch left unparsed
\* on batchChan, and has terminated all the same.
TerminatedAfterCancel ==
    /\ AllTerminated
    /\ ctxDone
    /\ streamWorkers # <<>>
    /\ sent < Len(logLines)
    /\ batchChan # <<>>

\* C30: FastStringSearch(haystack, needle) returns the index of the first
\* occurrence of needle in haystack, or -1 when it does not occur, on every
\* platform and for every length of needle, also on the Boyer-Moore path
\* taken for needles longer than 8 bytes.
SearchFindsFirstOccurrence ==
    (fn = "FastStringSearch" /\ ret # <<>>) =>
        LET h == ret[1].haystack
            n == ret[1].needle
            at == {i \in 0..(Len(h) - Len(n)) : SubSeq(h, i + 1, i + Len(n)) = n}
        IN  /\ at = {} => ret[1].index = -1
            /\ at # {} => /\ ret[1].index \in at
                          /\ \A i \in at : ret[1].index <= i

\* A Config with a regex that does not compile or with a numeric bound
\* that makes no sense.
Nonsensical(a) ==
    \/ a.Delimiters # "" /\ ~Compiles(a.Delimiters)
    \/ \E i \in DOMAIN a.CommonVariables : ~Compiles(a.CommonVariables[i])
    \/ a.config.ChildBranchThreshold < 0
    \/ a.config.Weight < 0
    \/ a.config.Weight > 100
    \/ a.config.ParallelProcessingThreshold < 0

\* C29: for a Config with an invalid delimiter or variable regex or with
\* nonsensical numeric bounds (a negative ChildBranchThreshold, a Weight
\* outside [0, 1], a negative ParallelProcessingThreshold) New fails at
\* construction: it returns no parser, and so no parser that parses.
NewRejectsNonsense ==
    (fn = "New" /\ ret # <<>> /\ Nonsensical(args)) =>
        /\ ret[1].panicked
        /\ Len(ret) = 1

====
